---------------------------- MODULE Spec2Model ----------------------------
(***************************************************************************)
(* A model of the PuppyNet agent core (src/core/src/app.rs): the request   *)
(* handler and its authorization gate, the node loop with its map of       *)
(* parked waiters, the scan and update streams between a serving and an    *)
(* initiating node, the updater (src/core/src/updater.rs), read_file and   *)
(* write_file on the bytes of a file, discovery and connection events,     *)
(* the catalog lock, shutdown, the sessions, the request gate and the scan  *)
(* sessions of the HTTP API (src/core/src/http_api.rs), the scan on the    *)
(* catalog's file tables and the peer views of the GUI                     *)
(* (src/cli/src/gui.rs).                                                   *)
(***************************************************************************)
EXTENDS Integers, Sequences, FiniteSets, TLC

VARIABLES
    \* ---- authorization / request handler (State, filesystem) ----
    permissions,      \* State: peer -> set of Permission granted by this node
    shared_folders,   \* State: set of FolderRule registered by the operator
    files,            \* filesystem: the regular files that exist
    last,             \* the last inbound filesystem request and what the handler did
    \* ---- node loop (App) and its in-process callers ----
    loop,             \* "running", "panicked" (the task died) or "stopped" (shutdown)
    cmdQueue,         \* rx: the commands sent and not yet handled
    nsent,            \* how many commands the callers have sent
    reply,            \* caller -> its oneshot receiver: state, value, values sent
    pending_requests, \* the waiters parked by request id
    outbound,         \* requests handed to the transport and not yet resolved
    nextId,           \* the transport's next OutboundRequestId
    completed,        \* the request ids whose waiter was completed or failed
    event,            \* the swarm event the loop has just handled
    \* ---- scans: the initiating node, the serving node and their workers ----
    node_id_known,    \* whether peer_to_node_id(state.me) yields a node id
    remote_scan_counter, \* initiator: the id the next remote scan gets
    remote_scans,     \* initiator: the scan ids that have a registered sender
    remoteRx,         \* initiator: what the receiver of remote scan 1 has got
    localRx,          \* what the receiver of the local scan has got
    workers,          \* the spawned tasks: "none", "running" or "done"
    emitted,          \* how many Progress events each scan worker has emitted
    progress_rx,      \* serving node: worker -> forwarder channel
    internal_rx,      \* serving node: the loop's internal command queue
    forwarded,        \* serving node: the events sent as ScanEvent requests
    \* ---- users and remote updates, as far as inbound requests touch them ----
    users,            \* state.users: the names of the created users
    remote_updates,   \* initiator: the update ids that have a registered sender
    updateRx,         \* initiator: what the receiver of remote update 1 has got
    \* ---- the updater (updater.rs) and the update streams ----
    remote_update_counter, \* the id the next update_remote_peer call gets
    updater,          \* the running update_with_progress: where it is, its inputs
    events,           \* the events update_with_progress has passed to its callback
    selfRx,           \* what the receiver of the local self-update has got
    app_dir,          \* the files staged in ~/.puppynet
    bin_file,         \* ~/.puppynet/bin/puppynet: "old", "new" (the staged binary),
                      \* "partial" (of a failed copy) or "unpacked" (an archive entry)
    \* ---- read_file and write_file on the bytes of one file ----
    content,          \* the bytes of the file
    reader,           \* a caller that reads the file chunk by chunk
    lastWrite,        \* the last write_file call and its result
    \* ---- State: what the node knows of its peers ----
    discovered_peers, \* State: the (peer, address) pairs mDNS has discovered
    connections,      \* State: the established connections
    peers,            \* State: the peers known from the catalog
    \* ---- scan handles ----
    cancel_flag,      \* ScanHandle: handle -> whether cancel() was called
    \* ---- the HTTP API's sessions ----
    sessions,         \* the sessions table of the catalog
    clock,            \* the clock, in the unit Ttl is given in
    http,             \* the last HTTP request and what the API made of it
    \* ---- the GUI ----
    gui,              \* GuiApp: menu, mode, peer rows and graph nodes
    \* ---- one waiter with the values it handles ----
    delivery,         \* a Pending<T>, the response it was completed with, its result
    \* ---- the scanned tree and the catalog's file tables ----
    catalog,          \* the tree, file_entries, file_locations, the last scan's statistics
    \* ---- one read_file call ----
    lastRead,         \* the last read_file call on a path and its result
    \* ---- the HTTP API's scan sessions ----
    api               \* ApiState: the scans of the HTTP API, the last request answered

authVars == <<permissions, shared_folders, files, last>>
loopVars == <<loop, cmdQueue, nsent, reply, pending_requests, outbound, nextId,
              completed, event>>

scanVars == <<node_id_known, remote_scan_counter, remote_scans, remoteRx, localRx, workers, emitted,
              progress_rx, internal_rx, forwarded>>
updVars == <<remote_update_counter, updater, events, selfRx, app_dir, bin_file>>
ioVars == <<content, reader, lastWrite>>
netVars == <<discovered_peers, connections, peers>>
httpVars == <<sessions, clock, http>>
frontVars == <<httpVars, gui, delivery, catalog, lastRead, api>>
extVars == <<netVars, cancel_flag, frontVars>>
miscVars == <<users, remote_updates, updateRx, updVars, ioVars, extVars>>

vars == <<authVars, loopVars, scanVars, miscVars>>

-----------------------------------------------------------------------------
(* Bounds *)

\* how many permissions one SetPeerPermissions call may carry
MaxPerms == 1
\* how many commands the in-process callers send
MaxCommands == 2
\* how many Progress events one scan emits before it finishes
MaxProgress == 2
\* how many event requests of an update stream are unresolved at a time
MaxInFlight == 1
\* how many stream events the peers send to a node that serves requests
MaxInboundEvents == 1
\* remote_scan_counter starts at 1
FirstScanId == 1

-----------------------------------------------------------------------------
(* Identities, paths and the filesystem the handler sees *)

Me == "me"
RemotePeers == {"p1", "p2"}

Names == {"a", "b", "c"}
Root == <<>>
NoPath == <<"?">>

\* directories of the filesystem (fixed); /c does not exist
Dirs == {Root, <<"a">>, <<"b">>}
\* /a/c is a symbolic link to the regular file /b/a, outside /a
LinkPath == <<"a", "c">>
LinkTarget == <<"b", "a">>
InitFiles == {<<"a", "a">>, <<"b", "a">>}

\* the path strings a peer sends: a directory, a file in it, a file that does
\* not exist yet, a symbolic link that leaves the directory, a path with no parent
ReqPaths == {<<"a">>, <<"a", "a">>, <<"a", "b">>, <<"a", "c">>, <<"c", "a">>}
\* the paths the operator shares, and the bases of the Folder permissions it grants
SharePaths == {<<"a">>}
GrantPaths == {<<"a">>}

Parent(p) == SubSeq(p, 1, Len(p) - 1)
FileName(p) == p[Len(p)]

\* std::fs::canonicalize: the symlink-resolved path of an existing file or
\* directory, an error (NoPath) for a path that does not exist
canonicalize(fs, p) ==
    IF p \in Dirs THEN p
    ELSE IF p = LinkPath THEN (IF LinkTarget \in fs THEN LinkTarget ELSE NoPath)
    ELSE IF p \in fs THEN p
    ELSE NoPath

-----------------------------------------------------------------------------
(* Permissions (state.rs is not among the sources: modelled from spec 3, 4.1) *)

FLAG_READ == {"read"}
FLAG_WRITE == {"write"}
FLAG_SEARCH == {"search"}

Owner == [kind |-> "Owner", path |-> Root, flags |-> {}]
Folder(base, flags) == [kind |-> "Folder", path |-> base, flags |-> flags]
FolderRule(base, flags) == [path |-> base, flags |-> flags]

\* Path::starts_with: component-wise prefix
RECURSIVE path_starts_with(_, _)
path_starts_with(p, base) ==
    IF base = <<>> THEN TRUE
    ELSE IF p = <<>> THEN FALSE
    ELSE Head(p) = Head(base) /\ path_starts_with(Tail(p), Tail(base))

permission_allows(perm, path, access) ==
    IF perm.kind = "Owner" THEN TRUE
    ELSE path_starts_with(path, perm.path) /\ access \subseteq perm.flags

\* State::has_fs_access: the local identity reads its shared folders, a remote
\* identity only the permissions granted to it
has_fs_access(perms, shared, peer, path, access) ==
    IF peer = Me
    THEN \E rule \in shared :
            path_starts_with(path, rule.path) /\ access \subseteq rule.flags
    ELSE \E perm \in perms[peer] : permission_allows(perm, path, access)

\* State::add_shared_folder
add_shared_folder(shared, rule) == shared \cup {rule}

\* State::set_peer_permissions: replaces every rule of the pair
set_peer_permissions(perms, peer, new) == [perms EXCEPT ![peer] = new]

\* the permissions an operator hands to set_peer_permissions; every Folder
\* grants search (a Folder without search is rejected at construction)
ReadSearch == FLAG_READ \cup FLAG_SEARCH
ReadWriteSearch == FLAG_READ \cup FLAG_WRITE \cup FLAG_SEARCH
PermissionChoices ==
    {Owner} \cup {Folder(b, f) : b \in GrantPaths, f \in {ReadSearch, ReadWriteSearch}}
PermissionSets == {ps \in SUBSET PermissionChoices : Cardinality(ps) <= MaxPerms}

-----------------------------------------------------------------------------
(* The inbound request handler, filesystem requests (handle_puppy_peer_req) *)

Res(t, m) == [type |-> t, msg |-> m]
AccessDenied == Res("Error", "Access denied")
InternalError == Res("Error", "Internal error")
\* the handler returned Err(_): handle_agent_event answers "Internal error"
HandlerErr == Res("Err", "")

FsKinds == {"ListDir", "StatFile", "ReadFile", "WriteFile", "GetThumbnail"}

\* what a handler run yields: the canonical path it checked, its answer, the
\* filesystem operations it performed and the files that exist afterwards
Outcome(canonical, res, ops, fs) ==
    [canonical |-> canonical, res |-> res, ops |-> ops, files |-> fs]

\* App::can_access
can_access_ignoring_mask(perms, shared, peer, path, access) ==
    has_fs_access(perms, shared, peer, path, {})
can_access(perms, shared, peer, path, access) ==
    has_fs_access(perms, shared, peer, path, access)

\* the masks the handler asks for
ReadMask == FLAG_READ \cup FLAG_SEARCH
WriteMaskWithoutWrite == FLAG_READ \cup FLAG_SEARCH
WriteMask == FLAG_WRITE \cup FLAG_READ \cup FLAG_SEARCH

\* PeerReq::ListDir
ListDirReq(perms, shared, fs, peer, path) ==
    LET canonical == canonicalize(fs, path) IN
    IF canonical = NoPath
    THEN Outcome(NoPath, Res("Error", "Failed to access directory"), {}, fs)
    ELSE IF ~can_access(perms, shared, peer, canonical, ReadMask)
    THEN Outcome(canonical, AccessDenied, {}, fs)
    ELSE IF canonical \in Dirs
    THEN Outcome(canonical, Res("DirEntries", ""), {<<"list", canonical>>}, fs)
    ELSE Outcome(canonical, HandlerErr, {}, fs)

\* PeerReq::StatFile
StatFileReq(perms, shared, fs, peer, path) ==
    LET canonical == canonicalize(fs, path) IN
    IF canonical = NoPath
    THEN Outcome(NoPath, Res("Error", "Failed to access file"), {}, fs)
    ELSE IF ~can_access(perms, shared, peer, canonical, ReadMask)
    THEN Outcome(canonical, AccessDenied, {}, fs)
    ELSE Outcome(canonical, Res("FileStat", ""), {<<"stat", canonical>>}, fs)

\* PeerReq::ReadFile; read_file bails on a directory
ReadFileReq(perms, shared, fs, peer, path) ==
    LET canonical == canonicalize(fs, path) IN
    IF canonical = NoPath
    THEN Outcome(NoPath, Res("Error", "Failed to access file"), {}, fs)
    ELSE IF ~can_access(perms, shared, peer, canonical, ReadMask)
    THEN Outcome(canonical, AccessDenied, {}, fs)
    ELSE IF canonical \notin Dirs
    THEN Outcome(canonical, Res("FileChunk", ""), {<<"read", canonical>>}, fs)
    ELSE Outcome(canonical, HandlerErr, {}, fs)

\* the canonical path WriteFile checks: that of an existing file, or the
\* canonical parent joined with the file name
WriteCanonical(fs, path) ==
    IF canonicalize(fs, path) # NoPath THEN canonicalize(fs, path)
    ELSE IF canonicalize(fs, Parent(path)) = NoPath THEN NoPath
    ELSE Append(canonicalize(fs, Parent(path)), FileName(path))

\* write_file: opens with create(true), extends, seeks and writes
write_file(fs, canonical) ==
    IF canonical \in Dirs
    THEN Outcome(canonical, HandlerErr, {}, fs)
    ELSE Outcome(canonical, Res("WriteAck", ""),
                 {<<"write", canonical>>}
                    \cup (IF canonical \in fs THEN {} ELSE {<<"create", canonical>>}),
                 fs \cup {canonical})

\* PeerReq::WriteFile
WriteFileReqOpenFirst(perms, shared, fs, peer, path) ==
    LET canonical == WriteCanonical(fs, path) IN
    IF canonical = NoPath
    THEN Outcome(NoPath, Res("Error", "Failed to access parent directory"), {}, fs)
    ELSE LET w == write_file(fs, canonical) IN
         IF ~can_access(perms, shared, peer, canonical, WriteMask)
         THEN Outcome(canonical, AccessDenied, w.ops, w.files)
         ELSE w
WriteFileReq(perms, shared, fs, peer, path) ==
    LET canonical == WriteCanonical(fs, path) IN
    IF canonical = NoPath
    THEN Outcome(NoPath, Res("Error", "Failed to access parent directory"), {}, fs)
    ELSE IF ~can_access(perms, shared, peer, canonical, WriteMask)
    THEN Outcome(canonical, AccessDenied, {}, fs)
    ELSE write_file(fs, canonical)

\* PeerReq::GetThumbnail: a directory cannot be read as an image
GetThumbnailReq(perms, shared, fs, peer, path) ==
    LET canonical == canonicalize(fs, path) IN
    IF canonical = NoPath
    THEN Outcome(NoPath, Res("Error", "Failed to access file"), {}, fs)
    ELSE IF ~can_access(perms, shared, peer, canonical, ReadMask)
    THEN Outcome(canonical, AccessDenied, {}, fs)
    ELSE IF canonical \notin Dirs
    THEN Outcome(canonical, Res("Thumbnail", ""), {<<"read", canonical>>}, fs)
    ELSE Outcome(canonical, Res("Error", "Failed to generate thumbnail"), {}, fs)

\* handle_puppy_peer_req on a filesystem request
FsRequest(perms, shared, fs, peer, kind, path) ==
    CASE kind = "ListDir" -> ListDirReq(perms, shared, fs, peer, path)
      [] kind = "StatFile" -> StatFileReq(perms, shared, fs, peer, path)
      [] kind = "ReadFile" -> ReadFileReq(perms, shared, fs, peer, path)
      [] kind = "WriteFile" -> WriteFileReq(perms, shared, fs, peer, path)
      [] kind = "GetThumbnail" -> GetThumbnailReq(perms, shared, fs, peer, path)

\* handle_agent_event, Message::Request: the handler's Ok(res) is sent as it
\* is, its Err(_) as Error("Internal error")
SentResponse(res) == IF res = HandlerErr THEN InternalError ELSE res

\* the handler did not return: it panicked
HandlerPanic == Res("Panic", "")

\* what handle_agent_event sends on the request's channel
Responses(res) == IF res = HandlerPanic THEN <<>> ELSE <<SentResponse(res)>>

-----------------------------------------------------------------------------
(* Specification SpecAuth: grants, shares and inbound filesystem requests *)

\* `last` is the request the node has just answered; any other step clears it
NoRequest == [peer |-> "none", kind |-> "none", path |-> NoPath, canonical |-> NoPath,
              res |-> Res("none", ""), ops |-> {}, sent |-> 0]

NoEvent == [type |-> "none", id |-> 0, payload |-> ""]
NoReply == [st |-> "none", val |-> "", n |-> 0]

\* the node loop before any command, request or event
IdleLoop ==
    /\ loop = "running"
    /\ cmdQueue = <<>>
    /\ nsent = 0
    /\ reply = [c \in 1..MaxCommands |-> NoReply]
    /\ pending_requests = {}
    /\ outbound = {}
    /\ nextId = 1
    /\ completed = {}
    /\ event = NoEvent

Tasks == {"local", "serve", "update"}

\* no scan and no update has been asked for
IdleScan ==
    /\ node_id_known = TRUE
    /\ remote_scan_counter = FirstScanId
    /\ remote_scans = {}
    /\ remoteRx = <<>>
    /\ localRx = <<>>
    /\ workers = [t \in Tasks |-> "none"]
    /\ emitted = [t \in {"local", "serve"} |-> 0]
    /\ progress_rx = <<>>
    /\ internal_rx = <<>>
    /\ forwarded = <<>>

\* the first id of remote_update_counter
FirstUpdateId == 1

\* update_with_progress is not running
NoVersion == [some |-> FALSE, tag |-> ""]
IdleUpdater ==
    [pc |-> "idle", mode |-> "none", id |-> 0, version |-> NoVersion,
     current_version |-> 0, tag |-> "", verified |-> "none", result |-> "none",
     error |-> ""]

IdleUpdate ==
    /\ remote_update_counter = FirstUpdateId
    /\ updater = IdleUpdater
    /\ events = <<>>
    /\ selfRx = <<>>
    /\ app_dir = {}
    /\ bin_file = "old"

\* length: None
NoLength == -1
IdleReader ==
    [active |-> FALSE, length |-> NoLength, offset |-> 0, data |-> <<>>, eof |-> FALSE,
     calls |-> 0, last |-> <<>>]
NoWrite == [offset |-> 0, data |-> <<>>, old |-> <<>>, result |-> "none", bytes_written |-> 0]

\* an empty file that nobody reads or writes
IdleIo ==
    /\ content = <<>>
    /\ reader = IdleReader
    /\ lastWrite = NoWrite

\* no peer discovered, connected or known
IdleNet ==
    /\ discovered_peers = <<>>
    /\ connections = {}
    /\ peers = {}

ScanHandles == {"scan_folder", "scan_remote_peer"}

\* issued and revoked record the tokens logins have handed out and logouts have taken back
NoHttp == [op |-> "none", token |-> 0, status |-> 0, user |-> "", at |-> 0,
           issued |-> {}, revoked |-> {}]

\* no session, no HTTP request yet
IdleHttp ==
    /\ sessions = {}
    /\ clock = 0
    /\ http = NoHttp

\* GuiApp::new on a node that knows only itself
PeerRow(id, address, status) == [id |-> id, address |-> address, status |-> status]
LOCAL_LISTEN_MULTIADDR == "/ip4/0.0.0.0:8336"
LocalRow == PeerRow(Me, LOCAL_LISTEN_MULTIADDR, "local")
NewGui ==
    [menu |-> "Peers", mode |-> "Peers", mode_peer |-> "", peers |-> <<LocalRow>>,
     selected_peer_id |-> "", nodes |-> <<Me>>, selected |-> 0]

NoDelivery == [T |-> "none", response |-> <<>>, result |-> <<>>]

\* an empty tree that was never scanned; dirty tells whether the tree has
\* changed since the last scan, rescan whether the last scan found the tree as
\* the scan before it had left it
ScanStats(inserted, updated, removed) ==
    [inserted |-> inserted, updated |-> updated, removed |-> removed]
EmptyCatalog ==
    [tree |-> {}, file_entries |-> {}, file_locations |-> {}, passes |-> 0,
     dirty |-> TRUE, rescan |-> FALSE, stats |-> ScanStats(0, 0, 0)]

NoRead == [kind |-> "none", offset |-> 0, length |-> 0, file |-> <<>>, result |-> <<>>]

\* the most scans started over the HTTP API in a run
MaxApiScans == 2
ApiScanIds == 1..MaxApiScans
\* the most Progress events the worker of such a scan sends
MaxApiEvents == 1

\* a bearer token as verify_jwt sees it: the subject, the key of its
\* signature, the expiry; and the absent token and cookie
Jwt(sub, key, exp) == [sub |-> sub, key |-> key, exp |-> exp]
NoJwt == Jwt("", "", 0)
NoCookie == -1

\* the last request handle_request has answered; gone says the scan the
\* request names had ended, by Finished or by cancel, before the request
NoApiCall ==
    [method |-> "", segments |-> <<>>, bearer |-> NoJwt, cookie |-> NoCookie,
     user |-> "", status |-> 0, route |-> "none",
     scan_id |-> 0, events |-> <<>>, gone |-> FALSE]

\* ApiState::new: no scan, ids from 1. scans holds the keys of the map, rx
\* the channel and flag the cancel flag of each handle; tx is the worker's
\* end of the channel. issued, sent, polled and cancelled record what was
\* handed out, sent, returned and cancelled.
NewApiState ==
    [scans |-> {}, next_scan_id |-> 1,
     rx |-> [id \in ApiScanIds |-> <<>>],
     flag |-> [id \in ApiScanIds |-> FALSE],
     tx |-> [id \in ApiScanIds |-> "none"],
     issued |-> <<>>,
     sent |-> [id \in ApiScanIds |-> <<>>],
     polled |-> [id \in ApiScanIds |-> <<>>],
     cancelled |-> {},
     last |-> NoApiCall]

IdleExt ==
    /\ IdleNet
    /\ cancel_flag = [h \in ScanHandles |-> FALSE]
    /\ IdleHttp
    /\ gui = NewGui
    /\ delivery = NoDelivery
    /\ catalog = EmptyCatalog
    /\ lastRead = NoRead
    /\ api = NewApiState

IdleMisc ==
    /\ users = {}
    /\ remote_updates = {}
    /\ updateRx = <<>>
    /\ IdleUpdate
    /\ IdleIo
    /\ IdleExt

InitAuth ==
    /\ permissions = [p \in RemotePeers |-> {}]
    /\ shared_folders = {}
    /\ files = InitFiles
    /\ last = NoRequest
    /\ IdleLoop
    /\ IdleScan
    /\ IdleMisc

\* PuppyNet::set_peer_permissions
SetPeerPermissions(peer, new) ==
    /\ permissions' = set_peer_permissions(permissions, peer, new)
    /\ last' = NoRequest
    /\ UNCHANGED <<shared_folders, files, loopVars, scanVars, miscVars>>

\* PuppyNet::register_shared_folder
register_shared_folder_granting(perms, shared, path, flags) ==
    [permissions |-> [p \in DOMAIN perms |-> perms[p] \cup {Folder(path, flags)}],
     shared_folders |-> add_shared_folder(shared, FolderRule(path, flags))]
register_shared_folder(perms, shared, path, flags) ==
    [permissions |-> perms,
     shared_folders |-> add_shared_folder(shared, FolderRule(path, flags))]

\* PuppyNet::share_read_only_folder
ShareReadOnlyFolder(path) ==
    /\ canonicalize(files, path) # NoPath
    /\ LET s == register_shared_folder(permissions, shared_folders,
                                       canonicalize(files, path), ReadSearch)
       IN /\ permissions' = s.permissions
          /\ shared_folders' = s.shared_folders
    /\ last' = NoRequest
    /\ UNCHANGED <<files, loopVars, scanVars, miscVars>>

\* PuppyNet::share_read_write_folder
ShareReadWriteFolder(path) ==
    /\ canonicalize(files, path) # NoPath
    /\ LET s == register_shared_folder(permissions, shared_folders,
                                       canonicalize(files, path), ReadWriteSearch)
       IN /\ permissions' = s.permissions
          /\ shared_folders' = s.shared_folders
    /\ last' = NoRequest
    /\ UNCHANGED <<files, loopVars, scanVars, miscVars>>

\* an inbound filesystem request from a remote peer, handled and answered
HandleFsRequest(peer, kind, path) ==
    LET out == FsRequest(permissions, shared_folders, files, peer, kind, path) IN
    /\ files' = out.files
    /\ last' = [peer |-> peer, kind |-> kind, path |-> path,
                canonical |-> out.canonical, res |-> SentResponse(out.res),
                ops |-> out.ops, sent |-> Len(Responses(out.res))]
    /\ UNCHANGED <<permissions, shared_folders, loopVars, scanVars, miscVars>>

NextAuth ==
    \/ \E p \in RemotePeers, ps \in PermissionSets : SetPeerPermissions(p, ps)
    \/ \E path \in SharePaths : ShareReadOnlyFolder(path)
    \/ \E path \in SharePaths : ShareReadWriteFolder(path)
    \/ \E p \in RemotePeers, k \in FsKinds, path \in ReqPaths :
          HandleFsRequest(p, k, path)

SpecAuth == InitAuth /\ [][NextAuth]_vars

-----------------------------------------------------------------------------
(* Claims C1-C4: the authorization gate *)

IsPrefix(base, x) == Len(base) <= Len(x) /\ SubSeq(x, 1, Len(base)) = base

\* some permission of `granted` covers x with flags that include mask m
Covered(granted, x, m) ==
    \E perm \in granted :
        \/ perm.kind = "Owner"
        \/ perm.kind = "Folder" /\ IsPrefix(perm.path, x) /\ m \subseteq perm.flags

ReadKinds == {"ListDir", "StatFile", "ReadFile", "GetThumbnail"}
RequiredMask(kind) ==
    IF kind = "WriteFile" THEN {"search", "read", "write"} ELSE {"search", "read"}

Handled == last.kind \in FsKinds

\* C1: an inbound ListDir, StatFile, ReadFile, WriteFile or GetThumbnail request
\* whose canonical path the peer's permissions do not allow with the required
\* mask is answered exactly Error("Access denied"), and the handler has listed,
\* read, written and created nothing for it.
C1_DeniedRequestTouchesNothing ==
    (Handled /\ last.canonical # NoPath
        /\ ~Covered(permissions[last.peer], last.canonical, RequiredMask(last.kind)))
    => (last.res = AccessDenied /\ last.ops = {})

\* a request through a symbolic link that leaves the granted folder is denied
C1_Witness ==
    /\ Handled /\ last.path = LinkPath /\ last.canonical = LinkTarget
    /\ permissions[last.peer] = {Folder(<<"a">>, ReadWriteSearch)}
    /\ last.res = AccessDenied

\* C2: read-type requests need search|read and WriteFile needs
\* search|read|write: a peer whose only grant is Folder{base, read+search} is
\* not denied a read-type request under base, never gets a WriteAck, and its
\* WriteFile creates and writes nothing.
ReadOnlyPeer(req, perms) ==
    req.kind \in FsKinds /\ \E base \in GrantPaths : perms[req.peer] = {Folder(base, ReadSearch)}

C2_ReadOnlyPeerNeverWrites ==
    /\ [](\A base \in GrantPaths :
            (Handled /\ permissions[last.peer] = {Folder(base, ReadSearch)}) =>
                /\ (last.kind = "WriteFile" =>
                        last.res.type # "WriteAck" /\ last.ops = {})
                /\ (last.kind \in ReadKinds /\ last.canonical # NoPath
                        /\ IsPrefix(base, last.canonical) => last.res # AccessDenied))
    /\ [][(ReadOnlyPeer(last', permissions') /\ last'.kind = "WriteFile")
            => files' = files]_vars

C2_Witness ==
    /\ Handled /\ last.kind = "WriteFile" /\ last.canonical = <<"a", "b">>
    /\ permissions[last.peer] = {Folder(<<"a">>, ReadSearch)}
    /\ last.res = AccessDenied

\* C3: registering a shared folder grants nothing to a remote peer: a share
\* step leaves every peer's permissions as they were, and a request of a peer
\* without permissions is refused and touches nothing, also inside a shared folder.
C3_SharesGrantNothing ==
    /\ [][shared_folders' # shared_folders => permissions' = permissions]_vars
    /\ []((Handled /\ permissions[last.peer] = {}) =>
            /\ last.res.type = "Error" /\ last.ops = {}
            /\ (last.canonical # NoPath => last.res = AccessDenied))

C3_Witness ==
    /\ Handled /\ permissions[last.peer] = {}
    /\ \E rule \in shared_folders : IsPrefix(rule.path, last.canonical)
    /\ last.kind = "ListDir" /\ last.res = AccessDenied

AllFlags == {"search", "read", "write"}
CanonicalPaths ==
    {Root} \cup {<<n>> : n \in Names} \cup {<<n, m>> : n \in Names, m \in Names}

\* C4: soundness of the access check: it returns true for (P, X, M) only if a
\* permission granted to P covers X (Owner, or a Folder whose base is X or a
\* component-wise ancestor of X) with flags that include M; it returns false
\* for every (X, M) when P has no permission.
C4_AccessCheckSound ==
    \A P \in RemotePeers, X \in CanonicalPaths, M \in SUBSET AllFlags :
        /\ can_access(permissions, shared_folders, P, X, M)
              => Covered(permissions[P], X, M)
        /\ permissions[P] = {}
              => ~can_access(permissions, shared_folders, P, X, M)

C4_Witness ==
    /\ permissions["p1"] = {Folder(<<"a">>, ReadSearch)}
    /\ permissions["p2"] = {}
    /\ shared_folders # {}
    /\ can_access(permissions, shared_folders, "p1", <<"a", "b">>, {"search", "read"})
    /\ ~can_access(permissions, shared_folders, "p1", <<"a", "b">>, AllFlags)
    /\ ~can_access(permissions, shared_folders, "p1", <<"b", "a">>, {"search"})

(***************************************************************************)
(* The node loop: commands, parked waiters, responses and failures.        *)
(***************************************************************************)

\* the commands of enum Command that handle_cmd resolves by itself or by one
\* request (Scan, RemoteScan and RemoteUpdate start streams; see the scan part)
PeerAddressed == {"ListDir", "ListCpus", "ListDisks", "ListInterfaces",
                  "ListFileEntries", "ListPermissions", "ReadFile", "GetThumbnail"}
CommandKinds == PeerAddressed \cup {"ListStorageFiles", "Connect"}
CommandPeers == {Me, "p1"}

\* the one remote peer the callers address
CommandTargets(kind) == IF kind \in PeerAddressed THEN CommandPeers ELSE {"p1"}

\* Connect carries no reply channel
HasReply(kind) == kind # "Connect"

\* a command: its variant, the peer it addresses, the caller's reply channel
\* (or the scan or update id) and the path or version of the variants that
\* carry one
CommandWithPath(kind, peer, caller, path) ==
    [kind |-> kind, peer |-> peer, caller |-> caller, path |-> path,
     version |-> NoVersion]
Command(kind, peer, caller) == CommandWithPath(kind, peer, caller, NoPath)

\* scan events: Progress(k) and Finished(result)
NoScanEvent == [type |-> "none", n |-> 0, res |-> ""]
Progress(k) == [type |-> "Progress", n |-> k, res |-> ""]
Finished(result) == [type |-> "Finished", n |-> 0, res |-> result]

\* a PeerReq: its variant, and the id, path and event of the variants that
\* carry one
PeerReq(type, id, path, ev) ==
    [type |-> type, id |-> id, path |-> path, event |-> ev, username |-> "",
     version |-> NoVersion]
UserReq(type, username) ==
    [type |-> type, id |-> 0, path |-> NoPath, event |-> NoScanEvent,
     username |-> username, version |-> NoVersion]

\* the PeerReq a command is translated to
RequestFor(kind) ==
    PeerReq(IF kind = "ListFileEntries" THEN "FileEntries" ELSE kind, 0, NoPath,
            NoScanEvent)

\* the PeerRes variant the ResponseDecoder of the command's result type accepts
Expected(kind) ==
    CASE kind = "ListDir" -> "DirEntries"
      [] kind = "ListCpus" -> "Cpus"
      [] kind = "ListDisks" -> "Disks"
      [] kind = "ListInterfaces" -> "Interfaces"
      [] kind = "ListFileEntries" -> "FileEntries"
      [] kind = "ListPermissions" -> "Permissions"
      [] kind = "ReadFile" -> "FileChunk"
      [] kind = "GetThumbnail" -> "Thumbnail"

\* values of a reply channel
Ok == <<"Ok">>
Err(msg) == <<"Err", msg>>
RequestFailed(cause) == <<"Err", "request failed", cause>>

\* what the local operation can return when the command addresses this node
LocalResults(kind) ==
    IF kind \in {"ListCpus", "ListDisks", "ListInterfaces", "ListPermissions"}
    THEN {Ok}
    ELSE {Ok, Err("local error")}

\* the responses a remote peer may give and the failures of the transport
ErrorText == "Access denied"
UnexpectedVariant == "ScanEventAck"
Answer(req) ==
    Expected(IF req.type = "FileEntries" THEN "ListFileEntries" ELSE req.type)
ResponsesTo(req) == {Answer(req), "Error", UnexpectedVariant}
OutboundFailures == {"Timeout", "ConnectionClosed"}

is_self_never(peer) == FALSE

\* state.me == peer
is_self(peer) == peer = Me

\* tx.send(value) on a oneshot whose receiver the caller holds
send(rep, caller, value) ==
    [rep EXCEPT ![caller] = [st |-> "value", val |-> value, n |-> @.n + 1]]

\* dropping senders: every receiver still waiting observes channel-closed
drop(rep, callers) ==
    [c \in DOMAIN rep |->
        IF c \in callers /\ rep[c].st = "waiting"
        THEN [rep[c] EXCEPT !.st = "closed"] ELSE rep[c]]

\* a parked waiter: Pending<T> with the caller's sender and T's variant, or
\* one of the waiters of a scan (kind "RemoteScanStart", "ScanEventAck")
Waiter(id, caller, expects) ==
    [id |-> id, kind |-> "Pending", caller |-> caller, expects |-> expects]

\* an outbound request in the hands of the transport; res is the response
\* once the remote node has answered and the answer is on its way back
NoResponse == Res("none", "")
Request(id, peer, req) == [id |-> id, peer |-> peer, req |-> req, res |-> NoResponse]
Ids(s) == {x.id : x \in s}

\* T::decode
decode(expects, response) ==
    IF response = expects THEN Ok ELSE Err("unexpected response")

\* Pending<T>::complete
Pending_complete(w, response) ==
    IF response = "Error" THEN Err(ErrorText) ELSE decode(w.expects, response)

\* Pending<T>::fail
Pending_fail(w, error) == error

LoopState(pend, rep, done) == [pending |-> pend, reply |-> rep, completed |-> done]

on_response_peek(pend, rep, done, id, response) ==
    LET ws == {w \in pend : w.id = id} IN
    IF ws = {} THEN LoopState(pend, rep, done)
    ELSE LET w == CHOOSE w \in ws : TRUE IN
         LoopState(pend, send(rep, w.caller, Pending_complete(w, response)),
                   done \cup {id})

\* Message::Response: remove the waiter by id, then complete it
on_response(pend, rep, done, id, response) ==
    LET ws == {w \in pend : w.id = id} IN
    IF ws = {} THEN LoopState(pend, rep, done)
    ELSE LET w == CHOOSE w \in ws : TRUE IN
         LoopState(pend \ ws, send(rep, w.caller, Pending_complete(w, response)),
                   done \cup {id})

on_outbound_failure_logged(pend, rep, done, id, cause) == LoopState(pend, rep, done)

\* OutboundFailure: remove the waiter by id, then fail it
on_outbound_failure(pend, rep, done, id, cause) ==
    LET ws == {w \in pend : w.id = id} IN
    IF ws = {} THEN LoopState(pend, rep, done)
    ELSE LET w == CHOOSE w \in ws : TRUE IN
         LoopState(pend \ ws, send(rep, w.caller, Pending_fail(w, RequestFailed(cause))),
                   done \cup {id})

\* pending_requests.insert: a waiter already parked under the id is failed
\* ("... request was replaced", ListDir and ListPermissions) or dropped
insert(pend, rep, kind, w) ==
    LET prev == {p \in pend : p.id = w.id} IN
    [pending |-> (pend \ prev) \cup {w},
     reply |-> IF kind \in {"ListDir", "ListPermissions"}
               THEN [c \in DOMAIN rep |->
                        IF c \in {p.caller : p \in prev}
                        THEN [st |-> "value", val |-> Err("request was replaced"),
                              n |-> rep[c].n + 1]
                        ELSE rep[c]]
               ELSE drop(rep, {p.caller : p \in prev})]

\* a caller creates a reply channel and sends a command on cmd_tx
SendCommand(kind, peer) ==
    /\ loop = "running"
    /\ nsent < MaxCommands
    /\ nsent' = nsent + 1
    /\ cmdQueue' = Append(cmdQueue, Command(kind, peer, nsent + 1))
    /\ reply' = [reply EXCEPT ![nsent + 1] =
                    [st |-> IF HasReply(kind) THEN "waiting" ELSE "none",
                     val |-> "", n |-> 0]]
    /\ event' = NoEvent
    /\ UNCHANGED <<loop, pending_requests, outbound, nextId, completed, authVars, scanVars, miscVars>>

\* rx.recv() then handle_cmd: answer locally, or send one request and park
HandleCmd ==
    /\ loop = "running"
    /\ cmdQueue # <<>>
    /\ LET cmd == Head(cmdQueue) IN
       /\ cmdQueue' = Tail(cmdQueue)
       /\ event' = NoEvent
       /\ IF cmd.kind = "Connect"
          THEN UNCHANGED <<reply, pending_requests, outbound, nextId>>
          ELSE IF cmd.kind = "ListStorageFiles" \/ is_self(cmd.peer)
          THEN /\ \E result \in LocalResults(cmd.kind) :
                     reply' = send(reply, cmd.caller, result)
               /\ UNCHANGED <<pending_requests, outbound, nextId>>
          ELSE LET parked == insert(pending_requests, reply, cmd.kind,
                                    Waiter(nextId, cmd.caller, Expected(cmd.kind)))
               IN /\ outbound' = outbound \cup
                        {Request(nextId, cmd.peer, RequestFor(cmd.kind))}
                  /\ pending_requests' = parked.pending
                  /\ reply' = parked.reply
                  /\ nextId' = nextId + 1
    /\ UNCHANGED <<loop, nsent, completed, authVars, scanVars, miscVars>>

\* the swarm yields Message::Response for an outbound request
DeliverResponse(r, response) ==
    /\ loop = "running"
    /\ r \in outbound
    /\ outbound' = outbound \ {r}
    /\ LET next == on_response(pending_requests, reply, completed, r.id, response) IN
       /\ pending_requests' = next.pending
       /\ reply' = next.reply
       /\ completed' = next.completed
    /\ event' = [type |-> "Response", id |-> r.id, payload |-> response]
    /\ UNCHANGED <<loop, cmdQueue, nsent, nextId, authVars, scanVars, miscVars>>

\* the swarm yields OutboundFailure for an outbound request
DeliverFailure(r, cause) ==
    /\ loop = "running"
    /\ r \in outbound
    /\ outbound' = outbound \ {r}
    /\ LET next == on_outbound_failure(pending_requests, reply, completed, r.id, cause) IN
       /\ pending_requests' = next.pending
       /\ reply' = next.reply
       /\ completed' = next.completed
    /\ event' = [type |-> "OutboundFailure", id |-> r.id, payload |-> cause]
    /\ UNCHANGED <<loop, cmdQueue, nsent, nextId, authVars, scanVars, miscVars>>

\* the node task ends and App is dropped: the queued commands and the parked
\* waiters go with it, so their senders are dropped
AppDropped(status) ==
    /\ loop' = status
    /\ cmdQueue' = <<>>
    /\ pending_requests' = {}
    /\ outbound' = {}
    /\ reply' = drop(reply, {cmdQueue[i].caller : i \in 1..Len(cmdQueue)}
                            \cup {w.caller : w \in pending_requests})
    /\ event' = NoEvent
    /\ UNCHANGED <<nsent, nextId, completed>>

(***************************************************************************)
(* Scans.  A local scan runs in a blocking worker that writes to the       *)
(* caller's receiver.  A remote scan involves two nodes running this       *)
(* program: the initiator registers a sender under a scan id and sends     *)
(* StartScan; the serving node spawns a worker and a forwarder, and its    *)
(* loop sends every event back as a ScanEvent request.  Both nodes'        *)
(* waiters are kept in pending_requests (they differ in kind) and both     *)
(* nodes' requests in outbound.                                            *)
(***************************************************************************)

\* how the two nodes know each other
Initiator == "p1"
Server == "p2"

\* a path the initiator may read on the serving node, one it may not, and one
\* that does not exist
ScanPaths == {<<"a">>, <<"b">>, <<"c", "a">>}
ScanResults == {"Ok", "scan failed"}
ScanFailure == "request failed: Timeout"

ScanStarted(result) == Res("ScanStarted", result)
ScanEventAck == Res("ScanEventAck", "")

InternalCommand(target, scan_id, ev) ==
    [target |-> target, scan_id |-> scan_id, event |-> ev]

StartWaiter(id, scan_id) ==
    [id |-> id, kind |-> "RemoteScanStart", caller |-> scan_id, expects |-> "ScanStarted"]
AckWaiter(id) ==
    [id |-> id, kind |-> "ScanEventAck", caller |-> 0, expects |-> "ScanEventAck"]

ScanChannels(scans, rx) == [remote_scans |-> scans, remoteRx |-> rx]

\* remove the sender registered under scan_id and send Finished(Err) on it
fail_scan(scans, rx, scan_id, error) ==
    IF scan_id \in scans
    THEN ScanChannels(scans \ {scan_id}, Append(rx, Finished(error)))
    ELSE ScanChannels(scans, rx)

\* PendingRemoteScanStart::complete
RemoteScanStart_complete(scans, rx, w, response) ==
    IF response.type = "ScanStarted" /\ response.msg = "Ok" THEN ScanChannels(scans, rx)
    ELSE IF response.type = "ScanStarted" THEN fail_scan(scans, rx, w.caller, response.msg)
    ELSE ScanChannels(scans, rx)

\* a start waiter whose fail only logs
RemoteScanStart_fail_logged(scans, rx, w, error) == ScanChannels(scans, rx)

\* PendingRemoteScanStart::fail
RemoteScanStart_fail(scans, rx, w, error) == fail_scan(scans, rx, w.caller, error)

on_scan_event_keeping(scans, rx, id, ev) ==
    IF id \in scans THEN ScanChannels(scans, Append(rx, ev)) ELSE ScanChannels(scans, rx)

\* the PeerReq::ScanEvent handler: pass the event to the registered sender
\* and drop the sender on Finished
on_scan_event(scans, rx, id, ev) ==
    IF id \in scans
    THEN ScanChannels(IF ev.type = "Finished" THEN scans \ {id} ELSE scans, Append(rx, ev))
    ELSE ScanChannels(scans, rx)

\* the PeerReq::StartScan handler up to the spawn
StartScanReq(perms, shared, fs, peer, path, known) ==
    LET canonical == canonicalize(fs, path) IN
    IF canonical = NoPath
    THEN [res |-> ScanStarted("failed to access path"), spawn |-> FALSE]
    ELSE IF ~can_access(perms, shared, peer, canonical, ReadMask)
    THEN [res |-> ScanStarted("Access denied"), spawn |-> FALSE]
    ELSE IF ~known
    THEN [res |-> ScanStarted("failed to determine node id"), spawn |-> FALSE]
    ELSE [res |-> ScanStarted("Ok"), spawn |-> TRUE]

\* scan_folder: create the channel and send Command::Scan (one local scan
\* per run)
ScanFolder(path) ==
    /\ loop = "running"
    /\ workers["local"] = "none"
    /\ workers' = [workers EXCEPT !["local"] = "queued"]
    /\ cmdQueue' = Append(cmdQueue, CommandWithPath("Scan", Me, 0, path))
    /\ UNCHANGED <<loop, nsent, reply, pending_requests, outbound, nextId, completed,
                   event, node_id_known, remote_scan_counter, remote_scans, remoteRx,
                   localRx, emitted, progress_rx, internal_rx, forwarded,
                   authVars, miscVars>>

\* handle_cmd, Command::Scan: without a node id the stream is one
\* Finished(Err); otherwise the blocking worker is spawned
HandleScanCmd ==
    /\ loop = "running"
    /\ cmdQueue # <<>> /\ Head(cmdQueue).kind = "Scan"
    /\ cmdQueue' = Tail(cmdQueue)
    /\ IF node_id_known
       THEN /\ workers' = [workers EXCEPT !["local"] = "running"]
            /\ UNCHANGED localRx
       ELSE /\ localRx' = Append(localRx, Finished("failed to determine node id"))
            /\ workers' = [workers EXCEPT !["local"] = "refused"]
    /\ UNCHANGED <<loop, nsent, reply, pending_requests, outbound, nextId, completed,
                   event, node_id_known, remote_scan_counter, remote_scans, remoteRx,
                   emitted, progress_rx, internal_rx, forwarded, authVars, miscVars>>

\* the worker's events: Progress from the scan's callback, then the one final
\* event made from the scan's result
worker_progress(chan, n) == Append(chan, Progress(n))
worker_finish(chan, result) == Append(chan, Finished(result))

LocalWorkerProgress ==
    /\ workers["local"] = "running"
    /\ emitted["local"] < MaxProgress
    /\ emitted' = [emitted EXCEPT !["local"] = @ + 1]
    /\ localRx' = worker_progress(localRx, emitted["local"] + 1)
    /\ UNCHANGED <<loopVars, node_id_known, remote_scan_counter, remote_scans, remoteRx,
                   workers, progress_rx, internal_rx, forwarded, authVars, miscVars>>

LocalWorkerFinish(result) ==
    /\ workers["local"] = "running"
    /\ workers' = [workers EXCEPT !["local"] = "done"]
    /\ localRx' = worker_finish(localRx, result)
    /\ UNCHANGED <<loopVars, node_id_known, remote_scan_counter, remote_scans, remoteRx,
                   emitted, progress_rx, internal_rx, forwarded, authVars, miscVars>>

\* scan_remote_peer: register the sender under a fresh id, send RemoteScan
\* (one remote scan per run)
ScanRemotePeer(path) ==
    /\ loop = "running"
    /\ remote_scan_counter = FirstScanId
    /\ remote_scan_counter' = remote_scan_counter + 1
    /\ remote_scans' = remote_scans \cup {remote_scan_counter}
    /\ cmdQueue' = Append(cmdQueue,
                          CommandWithPath("RemoteScan", Server, remote_scan_counter, path))
    /\ UNCHANGED <<loop, nsent, reply, pending_requests, outbound, nextId, completed,
                   event, node_id_known, remoteRx, localRx, workers, emitted,
                   progress_rx, internal_rx, forwarded, authVars, miscVars>>

\* handle_cmd, Command::RemoteScan: send StartScan and park the start waiter
HandleRemoteScanCmd ==
    /\ loop = "running"
    /\ cmdQueue # <<>> /\ Head(cmdQueue).kind = "RemoteScan"
    /\ LET cmd == Head(cmdQueue) IN
       /\ cmdQueue' = Tail(cmdQueue)
       /\ outbound' = outbound \cup
             {Request(nextId, cmd.peer, PeerReq("StartScan", cmd.caller, cmd.path, NoScanEvent))}
       /\ pending_requests' = {w \in pending_requests : w.id # nextId} \cup
             {StartWaiter(nextId, cmd.caller)}
       /\ nextId' = nextId + 1
    /\ UNCHANGED <<loop, nsent, reply, completed, event, scanVars, authVars, miscVars>>

\* the serving node handles the StartScan request; its answer travels back
ServeStartScan(r) ==
    /\ r \in outbound /\ r.req.type = "StartScan" /\ r.res = NoResponse
    /\ LET out == StartScanReq(permissions, shared_folders, files, Initiator,
                               r.req.path, node_id_known) IN
       /\ outbound' = (outbound \ {r}) \cup {[r EXCEPT !.res = out.res]}
       /\ workers' = IF out.spawn THEN [workers EXCEPT !["serve"] = "running"] ELSE workers
    /\ UNCHANGED <<loop, cmdQueue, nsent, reply, pending_requests, nextId, completed,
                   event, node_id_known, remote_scan_counter, remote_scans, remoteRx,
                   localRx, emitted, progress_rx, internal_rx, forwarded,
                   authVars, miscVars>>

\* the initiator's loop gets the response to StartScan
DeliverScanStarted(r) ==
    /\ loop = "running"
    /\ r \in outbound /\ r.req.type = "StartScan" /\ r.res # NoResponse
    /\ outbound' = outbound \ {r}
    /\ pending_requests' = {w \in pending_requests : w.id # r.id}
    /\ LET next == RemoteScanStart_complete(remote_scans, remoteRx,
                                            StartWaiter(r.id, r.req.id), r.res) IN
       /\ remote_scans' = next.remote_scans
       /\ remoteRx' = next.remoteRx
    /\ completed' = completed \cup {r.id}
    /\ UNCHANGED <<loop, cmdQueue, nsent, reply, nextId, event, node_id_known,
                   remote_scan_counter, localRx, workers, emitted, progress_rx,
                   internal_rx, forwarded, authVars, miscVars>>

\* the initiator's loop gets OutboundFailure for StartScan, whether or not
\* the serving node has handled the request
FailStartScan(r) ==
    /\ loop = "running"
    /\ r \in outbound /\ r.req.type = "StartScan"
    /\ outbound' = outbound \ {r}
    /\ pending_requests' = {w \in pending_requests : w.id # r.id}
    /\ LET next == RemoteScanStart_fail(remote_scans, remoteRx,
                                        StartWaiter(r.id, r.req.id), ScanFailure) IN
       /\ remote_scans' = next.remote_scans
       /\ remoteRx' = next.remoteRx
    /\ completed' = completed \cup {r.id}
    /\ UNCHANGED <<loop, cmdQueue, nsent, reply, nextId, event, node_id_known,
                   remote_scan_counter, localRx, workers, emitted, progress_rx,
                   internal_rx, forwarded, authVars, miscVars>>

\* the serving node's blocking worker
ServeWorkerProgress ==
    /\ workers["serve"] = "running"
    /\ emitted["serve"] < MaxProgress
    /\ emitted' = [emitted EXCEPT !["serve"] = @ + 1]
    /\ progress_rx' = worker_progress(progress_rx, emitted["serve"] + 1)
    /\ UNCHANGED <<loopVars, node_id_known, remote_scan_counter, remote_scans, remoteRx,
                   localRx, workers, internal_rx, forwarded, authVars, miscVars>>

\* a worker whose final send waits for the node loop to take the event
ServeWorkerFinishBlocking(result) ==
    /\ workers["serve"] = "running"
    /\ loop = "running" /\ internal_rx = <<>>
    /\ workers' = [workers EXCEPT !["serve"] = "done"]
    /\ progress_rx' = worker_finish(progress_rx, result)
    /\ UNCHANGED <<loopVars, node_id_known, remote_scan_counter, remote_scans, remoteRx,
                   localRx, emitted, internal_rx, forwarded, authVars, miscVars>>

ServeWorkerFinish(result) ==
    /\ workers["serve"] = "running"
    /\ workers' = [workers EXCEPT !["serve"] = "done"]
    /\ progress_rx' = worker_finish(progress_rx, result)
    /\ UNCHANGED <<loopVars, node_id_known, remote_scan_counter, remote_scans, remoteRx,
                   localRx, emitted, internal_rx, forwarded, authVars, miscVars>>

\* the forwarder task: progress_rx.recv() then internal_tx.send
Forward ==
    /\ progress_rx # <<>>
    /\ progress_rx' = Tail(progress_rx)
    /\ internal_rx' = Append(internal_rx,
                             InternalCommand(Initiator, FirstScanId, Head(progress_rx)))
    /\ UNCHANGED <<loopVars, node_id_known, remote_scan_counter, remote_scans, remoteRx,
                   localRx, workers, emitted, forwarded, authVars, miscVars>>

\* the events of an update stream
UpdateStages == {"FetchingRelease", "Downloading", "Unpacking", "Verifying",
                 "Installing", "Completed", "Failed", "AlreadyUpToDate"}
UpdateAckWaiter(id) ==
    [id |-> id, kind |-> "UpdateEventAck", caller |-> 0, expects |-> "UpdateEventAck"]

\* handle_internal_cmd: send the event as a ScanEvent or an UpdateEvent
\* request and park an acknowledgement waiter
HandleInternalCmd ==
    /\ loop = "running"
    /\ internal_rx # <<>>
    /\ LET cmd == Head(internal_rx)
           update == cmd.event.type \in UpdateStages
       IN
       /\ internal_rx' = Tail(internal_rx)
       /\ outbound' = outbound \cup
             {Request(nextId, cmd.target,
                      PeerReq(IF update THEN "UpdateEvent" ELSE "ScanEvent",
                              cmd.scan_id, NoPath, cmd.event))}
       /\ pending_requests' = {w \in pending_requests : w.id # nextId} \cup
             {IF update THEN UpdateAckWaiter(nextId) ELSE AckWaiter(nextId)}
       /\ forwarded' = Append(forwarded, cmd.event)
       /\ nextId' = nextId + 1
    /\ UNCHANGED <<loop, cmdQueue, nsent, reply, completed, event, node_id_known,
                   remote_scan_counter, remote_scans, remoteRx, localRx, workers,
                   emitted, progress_rx, authVars, miscVars>>

\* the initiator handles a ScanEvent request and acknowledges it
ReceiveScanEvent(r) ==
    /\ loop = "running"
    /\ r \in outbound /\ r.req.type = "ScanEvent" /\ r.res = NoResponse
    /\ LET next == on_scan_event(remote_scans, remoteRx, r.req.id, r.req.event) IN
       /\ remote_scans' = next.remote_scans
       /\ remoteRx' = next.remoteRx
    /\ outbound' = (outbound \ {r}) \cup {[r EXCEPT !.res = ScanEventAck]}
    /\ UNCHANGED <<loop, cmdQueue, nsent, reply, pending_requests, nextId, completed,
                   event, node_id_known, remote_scan_counter, localRx, workers, emitted,
                   progress_rx, internal_rx, forwarded, authVars, miscVars>>

\* the serving node's loop gets the acknowledgement:
\* PendingScanEventAck::complete does nothing
DeliverScanEventAck(r) ==
    /\ loop = "running"
    /\ r \in outbound /\ r.req.type = "ScanEvent" /\ r.res # NoResponse
    /\ outbound' = outbound \ {r}
    /\ pending_requests' = {w \in pending_requests : w.id # r.id}
    /\ completed' = completed \cup {r.id}
    /\ UNCHANGED <<loop, cmdQueue, nsent, reply, nextId, event, scanVars, authVars, miscVars>>

\* the serving node's loop gets OutboundFailure for a ScanEvent request,
\* whether or not the initiator has handled it:
\* PendingScanEventAck::fail only logs
FailScanEvent(r) ==
    /\ loop = "running"
    /\ r \in outbound /\ r.req.type = "ScanEvent"
    /\ outbound' = outbound \ {r}
    /\ pending_requests' = {w \in pending_requests : w.id # r.id}
    /\ completed' = completed \cup {r.id}
    /\ UNCHANGED <<loop, cmdQueue, nsent, reply, nextId, event, scanVars, authVars, miscVars>>

(***************************************************************************)
(* The inbound request handler, every request kind.                        *)
(***************************************************************************)

NotImplemented == {"GrantAccess", "ListUsers", "ListTokens", "RevokeToken", "RevokeUser"}
RequestKinds ==
    FsKinds \cup NotImplemented \cup
    {"ListCpus", "ListDisks", "ListInterfaces", "FileEntries", "StartScan", "ScanEvent",
     "ListPermissions", "Authenticate", "CreateUser", "CreateToken", "UpdateSelf",
     "UpdateEvent"}

NotImplementedText(kind) ==
    CASE kind = "GrantAccess" -> "GrantAccess not implemented"
      [] kind = "ListUsers" -> "ListUsers not implemented"
      [] kind = "ListTokens" -> "ListTokens not implemented"
      [] kind = "RevokeToken" -> "RevokeToken not implemented"
      [] kind = "RevokeUser" -> "RevokeUser not implemented"

\* update events: the terminal ones end the stream
UpdateEvent(type) == [type |-> type, n |-> 0, res |-> ""]
TerminalUpdateEvents == {"Completed", "Failed", "AlreadyUpToDate"}

UpdateChannels(updates, rx) == [remote_updates |-> updates, updateRx |-> rx]

\* an UpdateEvent handler that keeps the sender after a terminal event
on_update_event_keeping(updates, rx, id, ev) ==
    IF id \in updates THEN UpdateChannels(updates, Append(rx, ev))
    ELSE UpdateChannels(updates, rx)

\* the PeerReq::UpdateEvent handler
on_update_event(updates, rx, id, ev) ==
    IF id \in updates
    THEN UpdateChannels(IF ev.type \in TerminalUpdateEvents THEN updates \ {id} ELSE updates,
                        Append(rx, ev))
    ELSE UpdateChannels(updates, rx)

\* State::create_user: user names are unique
create_user(names, username) ==
    IF username \in names THEN [ok |-> FALSE, users |-> names]
    ELSE [ok |-> TRUE, users |-> names \cup {username}]

\* the response of the kinds that touch neither the filesystem nor a stream;
\* db_ok is whether the catalog query of FileEntries succeeds
PlainResponse(names, req, db_ok) ==
    CASE req.type = "ListCpus" -> Res("Cpus", "")
      [] req.type = "ListDisks" -> Res("Disks", "")
      [] req.type = "ListInterfaces" -> Res("Interfaces", "")
      [] req.type = "FileEntries" ->
            IF db_ok THEN Res("FileEntries", "")
            ELSE Res("Error", "failed to load file entries")
      [] req.type = "ListPermissions" -> Res("Permissions", "")
      [] req.type = "Authenticate" -> HandlerPanic
      [] req.type = "CreateUser" ->
            IF create_user(names, req.username).ok THEN Res("UserCreated", req.username)
            ELSE HandlerErr
      [] req.type = "CreateToken" ->
            IF req.username \in names THEN Res("TokenIssued", req.username)
            ELSE Res("Error", "User does not exist")
      [] req.type \in NotImplemented -> Res("Error", NotImplementedText(req.type))
      [] req.type = "ScanEvent" -> ScanEventAck
      [] req.type = "UpdateSelf" -> Res("UpdateStarted", "Ok")
      [] req.type = "UpdateEvent" -> Res("UpdateEventAck", "")

\* handle_puppy_peer_req: the handler's result and what it does to the node
handle_puppy_peer_req(peer, req, db_ok) ==
    LET fs == FsRequest(permissions, shared_folders, files, peer, req.type, req.path)
        start == StartScanReq(permissions, shared_folders, files, peer, req.path,
                              node_id_known)
        scans == IF req.type = "ScanEvent"
                 THEN on_scan_event(remote_scans, remoteRx, req.id, req.event)
                 ELSE ScanChannels(remote_scans, remoteRx)
        updates == IF req.type = "UpdateEvent"
                   THEN on_update_event(remote_updates, updateRx, req.id, req.event)
                   ELSE UpdateChannels(remote_updates, updateRx)
    IN [res |-> IF req.type \in FsKinds THEN fs.res
                ELSE IF req.type = "StartScan" THEN start.res
                ELSE PlainResponse(users, req, db_ok),
        canonical |-> IF req.type \in FsKinds THEN fs.canonical ELSE NoPath,
        ops |-> IF req.type \in FsKinds THEN fs.ops ELSE {},
        files |-> IF req.type \in FsKinds THEN fs.files ELSE files,
        users |-> IF req.type = "CreateUser"
                  THEN create_user(users, req.username).users ELSE users,
        remote_scans |-> scans.remote_scans,
        remoteRx |-> scans.remoteRx,
        remote_updates |-> updates.remote_updates,
        updateRx |-> updates.updateRx,
        workers |-> IF req.type = "StartScan" /\ start.spawn
                    THEN [workers EXCEPT !["serve"] = "running"]
                    ELSE IF req.type = "UpdateSelf"
                    THEN [workers EXCEPT !["update"] = "running"]
                    ELSE workers]

\* handle_agent_event, Message::Request: run the handler and send its
\* response, or Error("Internal error") for its Err(_); a panic of the
\* handler ends the node task with nothing sent
HandleRequest(peer, req, db_ok) ==
    /\ loop = "running"
    /\ \E out \in {handle_puppy_peer_req(peer, req, db_ok)} :
       /\ files' = out.files
       /\ users' = out.users
       /\ remote_scans' = out.remote_scans
       /\ remoteRx' = out.remoteRx
       /\ remote_updates' = out.remote_updates
       /\ updateRx' = out.updateRx
       /\ workers' = out.workers
       /\ last' = [peer |-> peer, kind |-> req.type, path |-> req.path,
                   canonical |-> out.canonical,
                   res |-> IF out.res = HandlerPanic THEN NoResponse
                           ELSE SentResponse(out.res),
                   ops |-> out.ops, sent |-> Len(Responses(out.res))]
       /\ IF out.res = HandlerPanic
          THEN AppDropped("panicked")
          ELSE UNCHANGED loopVars
    /\ UNCHANGED <<permissions, shared_folders, node_id_known, remote_scan_counter,
                   localRx, emitted, progress_rx, internal_rx, forwarded, updVars, ioVars, extVars>>

(***************************************************************************)
(* The updater (updater.rs).  update_with_progress runs as a task of its   *)
(* own: every action below is the code between two of its await points,    *)
(* with the outcome of the awaited operation (the release fetched, the     *)
(* download, the extraction, the signature check, the file operations of   *)
(* the install) chosen by the environment.                                 *)
(***************************************************************************)

\* the release tags the upstream host may answer with, spelled out
Tags == {"0", "42", "43", "v42", "+42", "4294967296"}
Chars(tag) ==
    CASE tag = "0" -> <<"0">>
      [] tag = "42" -> <<"4", "2">>
      [] tag = "43" -> <<"4", "3">>
      [] tag = "v42" -> <<"v", "4", "2">>
      [] tag = "+42" -> <<"+", "4", "2">>
      [] tag = "4294967296" -> <<"4", "2", "9", "4", "9", "6", "7", "2", "9", "6">>

Digits == {"0", "1", "2", "3", "4", "5", "6", "7", "8", "9"}
DigitValue(ch) ==
    CASE ch = "0" -> 0 [] ch = "1" -> 1 [] ch = "2" -> 2 [] ch = "3" -> 3
      [] ch = "4" -> 4 [] ch = "5" -> 5 [] ch = "6" -> 6 [] ch = "7" -> 7
      [] ch = "8" -> 8 [] ch = "9" -> 9

\* the decimal digits of the largest u32, 4294967295
U32MaxDigits == <<4, 2, 9, 4, 9, 6, 7, 2, 9, 5>>
\* the result of a failed parse
ParseError == -1

RECURSIVE strip_zeros(_)
strip_zeros(ds) ==
    IF Len(ds) > 1 /\ Head(ds) = 0 THEN strip_zeros(Tail(ds)) ELSE ds

\* ds, without leading zeros, is more than the largest u32
RECURSIVE exceeds(_, _)
exceeds(ds, max) ==
    IF Len(ds) # Len(max) THEN Len(ds) > Len(max)
    ELSE IF ds = <<>> THEN FALSE
    ELSE IF Head(ds) # Head(max) THEN Head(ds) > Head(max)
    ELSE exceeds(Tail(ds), Tail(max))

RECURSIVE value(_, _)
value(ds, acc) ==
    IF ds = <<>> THEN acc ELSE value(Tail(ds), acc * 10 + Head(ds))

\* a parse that accepts nothing
parse_nothing(tag) == ParseError

\* str::parse::<u32>: an optional "+", then at least one digit and nothing
\* else, and no overflow
parse_u32(tag) ==
    LET chars == Chars(tag)
        digits == IF chars # <<>> /\ Head(chars) = "+" THEN Tail(chars) ELSE chars
    IN IF digits = <<>> \/ \E i \in 1..Len(digits) : digits[i] \notin Digits
       THEN ParseError
       ELSE LET ds == strip_zeros([i \in 1..Len(digits) |-> DigitValue(digits[i])])
            IN IF exceeds(ds, U32MaxDigits) THEN ParseError ELSE value(ds, 0)

Version(tag) == [some |-> TRUE, tag |-> tag]

UpdateProgress(type, payload) == [type |-> type, n |-> 0, res |-> payload]
FetchingRelease == UpdateProgress("FetchingRelease", "")
Downloading == UpdateProgress("Downloading", "puppynet-linux.tar.gz")
Unpacking == UpdateProgress("Unpacking", "")
Verifying == UpdateProgress("Verifying", "")
Installing == UpdateProgress("Installing", "")
Completed(tag) == UpdateProgress("Completed", tag)
Failed(error) == UpdateProgress("Failed", error)
AlreadyUpToDate(current_version) ==
    [type |-> "AlreadyUpToDate", n |-> current_version, res |-> ""]

\* the files of the app dir that the updater looks for
Archive == "puppynet-linux.tar.gz"
BinName == "puppynet"
KnownSigNames == <<"puppynet.sig", "puppynet.exe.sig">>
OtherSig == "release.sig"
SigFiles == {KnownSigNames[1], KnownSigNames[2], OtherSig}
\* the archive entry whose path, joined to the app dir, is the installed
\* binary ~/.puppynet/bin/puppynet
BinDirEntry == "bin/puppynet"
\* what an archive may hold
ArchiveContents == SUBSET {BinName, KnownSigNames[1], OtherSig, BinDirEntry}

\* the signature file: the known names first, then any .sig file
NoSig == "none"
sig_path(dir) ==
    IF KnownSigNames[1] \in dir THEN KnownSigNames[1]
    ELSE IF KnownSigNames[2] \in dir THEN KnownSigNames[2]
    ELSE IF dir \cap SigFiles # {} THEN CHOOSE f \in dir \cap SigFiles : TRUE
    ELSE NoSig

\* what one step of update_with_progress leaves behind: the next await point
\* or the result, the events passed to the callback, and the files
Step(pc, result, error, callback, dir, bin) ==
    [pc |-> pc, result |-> result, error |-> error, callback |-> callback,
     app_dir |-> dir, bin_file |-> bin]
Bail(error, callback, dir, bin) == Step("returned", "Err", error, callback, dir, bin)

\* an updater that starts without an event
begin_silent(dir, bin) == Step("fetch", "none", "", <<>>, dir, bin)

\* lines 125-127: the first event, then fetch_release is awaited
begin(dir, bin) == Step("fetch", "none", "", <<FetchingRelease>>, dir, bin)

FetchOutcomes ==
    {"error", "no tag_name", "no assets", "no asset for os", "no download url", "ok"}

\* lines 127-194: the release is there; the short circuit, the asset
\* selection, the Downloading event, then download_bin is awaited
after_fetch(version, current_version, outcome, tag, dir, bin) ==
    IF outcome = "error" THEN Bail("fetch failed", <<>>, dir, bin)
    ELSE IF outcome = "no tag_name"
    THEN Bail("release response missing tag_name", <<>>, dir, bin)
    ELSE IF ~version.some /\ parse_u32(tag) # ParseError /\ parse_u32(tag) <= current_version
    THEN Step("returned", "Ok", "", <<AlreadyUpToDate(current_version)>>, dir, bin)
    ELSE IF outcome = "no assets" THEN Bail("no assets found", <<>>, dir, bin)
    ELSE IF outcome = "no asset for os" THEN Bail("no asset found for os", <<>>, dir, bin)
    ELSE IF outcome = "no download url" THEN Bail("no download url found", <<>>, dir, bin)
    ELSE Step("download", "none", "", <<Downloading>>, dir, bin)

\* lines 194-203: the archive is written to the app dir; the Unpacking
\* event, then the extraction is awaited
after_download(ok, dir, bin) ==
    IF ~ok THEN Bail("download failed", <<>>, dir, bin)
    ELSE Step("unpack", "none", "", <<Unpacking>>, dir \cup {Archive}, bin)

\* lines 238-254: every entry of a tar.gz archive is unpacked to the app dir
\* joined with the entry's path, so the entry bin/puppynet is written over
\* the installed binary
unpack(unpacked, dir, bin) ==
    [app_dir |-> dir \cup (unpacked \ {BinDirEntry}),
     bin_file |-> IF BinDirEntry \in unpacked THEN "unpacked" ELSE bin]

\* lines 203-314: the extraction has ended (a failed one may have unpacked
\* some of the entries); the Verifying event, the binary and the signature
\* are looked for, then verify_signature is awaited
after_unpack(ok, unpacked, dir, bin) ==
    LET now == unpack(unpacked, dir, bin).app_dir
        installed == unpack(unpacked, dir, bin).bin_file
    IN
    IF ~ok THEN Bail("unpack failed", <<>>, now, installed)
    ELSE IF BinName \notin now
    THEN Bail("Binary not found", <<Verifying, Failed("Binary not found")>>, now, installed)
    ELSE IF sig_path(now) = NoSig
    THEN Bail("Signature file not found",
              <<Verifying, Failed("Signature file not found")>>, now, installed)
    ELSE Step("verify", "none", "", <<Verifying>>, now, installed)

\* verify_signature: Ok(true), Ok(false), or Err when the signature cannot
\* be read or is not a signature
VerifyOutcomes == {"true", "false", "error"}

\* lines 314-326: the verdict; the Installing event, then the copy into the
\* bin dir is awaited
after_verify(verdict, dir, bin) ==
    IF verdict = "error" THEN Bail("signature unreadable", <<>>, dir, bin)
    ELSE IF verdict = "false"
    THEN Bail("Signature verification failed",
              <<Failed("Signature verification failed")>>, dir, bin)
    ELSE Step("install", "none", "", <<Installing>>, dir, bin)

\* the file operations of the install in order: the copy, the two removals
InstallOutcomes == {"copy failed", "remove binary failed", "remove signature failed", "ok"}

\* lines 326-339: the copy into the bin dir (a failed copy may leave a part
\* of the file), the removals of the staged files, the Completed event
after_install(outcome, partial, tag, dir, bin) ==
    IF outcome = "copy failed"
    THEN Bail("install failed", <<>>, dir, IF partial THEN "partial" ELSE bin)
    ELSE IF outcome = "remove binary failed"
    THEN Bail("install failed", <<>>, dir, "new")
    ELSE IF outcome = "remove signature failed"
    THEN Bail("install failed", <<>>, dir \ {BinName}, "new")
    ELSE Step("returned", "Ok", "", <<Completed(tag)>>,
              dir \ {BinName, sig_path(dir)}, "new")

(***************************************************************************)
(* Update streams.  A local self-update runs update_with_progress in a     *)
(* thread that writes to the caller's receiver.  A remote update is asked  *)
(* for with UpdateSelf; the serving node spawns update_with_progress with  *)
(* a callback that queues every event for its loop, which sends it back as *)
(* an UpdateEvent request.  The command line runs the updater with a       *)
(* callback that does nothing.                                             *)
(***************************************************************************)

\* the versions a caller may ask for
Versions == {NoVersion, Version("42")}
\* the versions a build may have: 0 in the library, its own on the command line
CurrentVersions == {0, 42}

UpdateStarted(result) == Res("UpdateStarted", result)
UpdateEventAck == Res("UpdateEventAck", "")
UpdateStartWaiter(id, update_id) ==
    [id |-> id, kind |-> "RemoteUpdateStart", caller |-> update_id,
     expects |-> "UpdateStarted"]
UpdateSelfReq(id, version) ==
    [PeerReq("UpdateSelf", id, NoPath, NoScanEvent) EXCEPT !.version = version]
RemoteUpdate(peer, update_id, version) ==
    [CommandWithPath("RemoteUpdate", peer, update_id, NoPath) EXCEPT !.version = version]

Spawned(mode, id, version, current_version) ==
    [IdleUpdater EXCEPT !.pc = "spawned", !.mode = mode, !.id = id,
                        !.version = version, !.current_version = current_version]

\* remove the sender registered under update_id and send Failed on it
fail_update(updates, rx, update_id, error) ==
    IF update_id \in updates
    THEN UpdateChannels(updates \ {update_id}, Append(rx, Failed(error)))
    ELSE UpdateChannels(updates, rx)

\* PendingRemoteUpdateStart::complete
RemoteUpdateStart_complete(updates, rx, w, response) ==
    IF response.type = "UpdateStarted" /\ response.msg = "Ok" THEN UpdateChannels(updates, rx)
    ELSE IF response.type = "UpdateStarted"
    THEN fail_update(updates, rx, w.caller, response.msg)
    ELSE UpdateChannels(updates, rx)

\* PendingRemoteUpdateStart::fail
RemoteUpdateStart_fail(updates, rx, w, error) == fail_update(updates, rx, w.caller, error)

\* what the caller of update_with_progress does with an event of the
\* callback and with the result: the local thread and the task spawned by
\* the UpdateSelf handler pass the events on and add Failed for an Err
Published(u, out) ==
    IF u.mode = "direct" THEN <<>>
    ELSE out.callback \o (IF out.result = "Err" THEN <<Failed(out.error)>> ELSE <<>>)

Queued(u, stream) ==
    [i \in 1..Len(stream) |-> InternalCommand(Initiator, u.id, stream[i])]

\* one step of the updater task, with all that its caller does with it
UpdaterStep(u, out) ==
    /\ updater' = [u EXCEPT !.pc = out.pc, !.result = out.result, !.error = out.error]
    /\ events' = events \o out.callback
    /\ selfRx' = IF updater.mode = "local" THEN selfRx \o Published(updater, out)
                 ELSE selfRx
    /\ internal_rx' = IF updater.mode = "serve"
                      THEN internal_rx \o Queued(updater, Published(updater, out))
                      ELSE internal_rx
    /\ app_dir' = out.app_dir
    /\ bin_file' = out.bin_file
    /\ workers' = IF out.pc = "returned" THEN [workers EXCEPT !["update"] = "done"]
                  ELSE workers

UpdaterFrame ==
    UNCHANGED <<loopVars, authVars, users, ioVars, extVars, remote_updates, updateRx,
                remote_update_counter, node_id_known, remote_scan_counter,
                remote_scans, remoteRx, localRx, emitted, progress_rx, forwarded>>

Begin ==
    /\ updater.pc = "spawned"
    /\ UpdaterStep(updater, begin(app_dir, bin_file))
    /\ UpdaterFrame

Fetched(outcome, tag) ==
    /\ updater.pc = "fetch"
    /\ UpdaterStep([updater EXCEPT !.tag = tag],
                   after_fetch(updater.version, updater.current_version, outcome, tag,
                               app_dir, bin_file))
    /\ UpdaterFrame

Downloaded(ok) ==
    /\ updater.pc = "download"
    /\ UpdaterStep(updater, after_download(ok, app_dir, bin_file))
    /\ UpdaterFrame

Unpacked(ok, unpacked) ==
    /\ updater.pc = "unpack"
    /\ UpdaterStep(updater, after_unpack(ok, unpacked, app_dir, bin_file))
    /\ UpdaterFrame

Verified(verdict) ==
    /\ updater.pc = "verify"
    /\ UpdaterStep([updater EXCEPT !.verified = verdict],
                   after_verify(verdict, app_dir, bin_file))
    /\ UpdaterFrame

Installed(outcome, partial) ==
    /\ updater.pc = "install"
    /\ UpdaterStep(updater,
                   after_install(outcome, partial, updater.tag, app_dir, bin_file))
    /\ UpdaterFrame

\* update_remote_peer with this node as the target: the updater runs in a
\* thread of its own and writes to the caller's receiver
UpdateSelfLocal(version) ==
    /\ updater.pc = "idle"
    /\ remote_update_counter' = remote_update_counter + 1
    /\ updater' = Spawned("local", remote_update_counter, version, 0)
    /\ workers' = [workers EXCEPT !["update"] = "running"]
    /\ UNCHANGED <<loopVars, authVars, users, ioVars, extVars, remote_updates, updateRx, events, selfRx,
                   app_dir, bin_file, node_id_known, remote_scan_counter, remote_scans,
                   remoteRx, localRx, emitted, progress_rx, internal_rx, forwarded>>

\* the command line's update: updater::update, whose callback does nothing
CliUpdate(version, current_version) ==
    /\ updater.pc = "idle"
    /\ updater' = Spawned("direct", 0, version, current_version)
    /\ workers' = [workers EXCEPT !["update"] = "running"]
    /\ UNCHANGED <<loopVars, authVars, users, ioVars, extVars, remote_updates, updateRx,
                   remote_update_counter, events, selfRx, app_dir, bin_file,
                   node_id_known, remote_scan_counter, remote_scans, remoteRx, localRx,
                   emitted, progress_rx, internal_rx, forwarded>>

\* update_remote_peer with another peer as the target: register the sender
\* under a fresh id, send RemoteUpdate
UpdateRemotePeer(version) ==
    /\ loop = "running"
    /\ updater.pc = "idle"
    /\ remote_update_counter' = remote_update_counter + 1
    /\ remote_updates' = remote_updates \cup {remote_update_counter}
    /\ cmdQueue' = Append(cmdQueue, RemoteUpdate(Server, remote_update_counter, version))
    /\ UNCHANGED <<loop, nsent, reply, pending_requests, outbound, nextId, completed,
                   event, authVars, scanVars, users, ioVars, extVars, updateRx, updater, events,
                   selfRx, app_dir, bin_file>>

\* handle_cmd, Command::RemoteUpdate: send UpdateSelf and park the start waiter
HandleRemoteUpdateCmd ==
    /\ loop = "running"
    /\ cmdQueue # <<>> /\ Head(cmdQueue).kind = "RemoteUpdate"
    /\ LET cmd == Head(cmdQueue) IN
       /\ cmdQueue' = Tail(cmdQueue)
       /\ outbound' = outbound \cup
             {Request(nextId, cmd.peer, UpdateSelfReq(cmd.caller, cmd.version))}
       /\ pending_requests' = {w \in pending_requests : w.id # nextId} \cup
             {UpdateStartWaiter(nextId, cmd.caller)}
       /\ nextId' = nextId + 1
    /\ UNCHANGED <<loop, nsent, reply, completed, event, scanVars, authVars, miscVars>>

\* the serving node handles the UpdateSelf request: it spawns the updater
\* and answers UpdateStarted(Ok)
ServeUpdateSelf(r) ==
    /\ r \in outbound /\ r.req.type = "UpdateSelf" /\ r.res = NoResponse
    /\ updater.pc = "idle"
    /\ outbound' = (outbound \ {r}) \cup {[r EXCEPT !.res = PlainResponse(users, r.req, TRUE)]}
    /\ updater' = Spawned("serve", r.req.id, r.req.version, 0)
    /\ workers' = [workers EXCEPT !["update"] = "running"]
    /\ UNCHANGED <<loop, cmdQueue, nsent, reply, pending_requests, nextId, completed,
                   event, authVars, users, ioVars, extVars, remote_updates, updateRx,
                   remote_update_counter, events, selfRx, app_dir, bin_file,
                   node_id_known, remote_scan_counter, remote_scans, remoteRx, localRx,
                   emitted, progress_rx, internal_rx, forwarded>>

\* a peer of another build answers a start request by itself: the start
\* refused, or a variant that is no answer to the request
StartAnswers(type) ==
    IF type = "StartScan"
    THEN {ScanStarted("scan refused"), Res("Error", "Internal error")}
    ELSE {UpdateStarted("update refused"), Res("Error", "Internal error")}

PeerAnswers(r, res) ==
    /\ r \in outbound /\ r.req.type \in {"StartScan", "UpdateSelf"} /\ r.res = NoResponse
    /\ outbound' = (outbound \ {r}) \cup {[r EXCEPT !.res = res]}
    /\ UNCHANGED <<loop, cmdQueue, nsent, reply, pending_requests, nextId, completed,
                   event, authVars, scanVars, miscVars>>

\* the initiator's loop gets the response to UpdateSelf
DeliverUpdateStarted(r) ==
    /\ loop = "running"
    /\ r \in outbound /\ r.req.type = "UpdateSelf" /\ r.res # NoResponse
    /\ outbound' = outbound \ {r}
    /\ pending_requests' = {w \in pending_requests : w.id # r.id}
    /\ LET next == RemoteUpdateStart_complete(remote_updates, updateRx,
                                              UpdateStartWaiter(r.id, r.req.id), r.res) IN
       /\ remote_updates' = next.remote_updates
       /\ updateRx' = next.updateRx
    /\ completed' = completed \cup {r.id}
    /\ UNCHANGED <<loop, cmdQueue, nsent, reply, nextId, event, authVars, scanVars,
                   users, ioVars, extVars, updVars>>

\* the initiator's loop gets OutboundFailure for UpdateSelf, whether or not
\* the serving node has handled the request
FailUpdateSelf(r) ==
    /\ loop = "running"
    /\ r \in outbound /\ r.req.type = "UpdateSelf"
    /\ outbound' = outbound \ {r}
    /\ pending_requests' = {w \in pending_requests : w.id # r.id}
    /\ LET next == RemoteUpdateStart_fail(remote_updates, updateRx,
                                          UpdateStartWaiter(r.id, r.req.id), ScanFailure) IN
       /\ remote_updates' = next.remote_updates
       /\ updateRx' = next.updateRx
    /\ completed' = completed \cup {r.id}
    /\ UNCHANGED <<loop, cmdQueue, nsent, reply, nextId, event, authVars, scanVars,
                   users, ioVars, extVars, updVars>>

\* the initiator handles an UpdateEvent request and acknowledges it
ReceiveUpdateEvent(r) ==
    /\ loop = "running"
    /\ r \in outbound /\ r.req.type = "UpdateEvent" /\ r.res = NoResponse
    /\ LET next == on_update_event(remote_updates, updateRx, r.req.id, r.req.event) IN
       /\ remote_updates' = next.remote_updates
       /\ updateRx' = next.updateRx
    /\ outbound' = (outbound \ {r}) \cup {[r EXCEPT !.res = UpdateEventAck]}
    /\ UNCHANGED <<loop, cmdQueue, nsent, reply, pending_requests, nextId, completed,
                   event, authVars, scanVars, users, ioVars, extVars, updVars>>

\* the serving node's loop gets the acknowledgement or OutboundFailure for an
\* UpdateEvent request: PendingUpdateEventAck::complete does nothing and
\* fail only logs
ResolveUpdateEvent(r) ==
    /\ loop = "running"
    /\ r \in outbound /\ r.req.type = "UpdateEvent"
    /\ outbound' = outbound \ {r}
    /\ pending_requests' = {w \in pending_requests : w.id # r.id}
    /\ completed' = completed \cup {r.id}
    /\ UNCHANGED <<loop, cmdQueue, nsent, reply, nextId, event, scanVars, authVars, miscVars>>

\* ---------------------------------------------------------------------------
\* read_file and write_file: the bytes of one file
\* ---------------------------------------------------------------------------

\* a byte is zero or not
Bytes == {0, 1}

\* the longest file a run starts with, and the longest data of one write
MaxFileLen == 3
MaxData == 2

\* the largest u64: offsets and lengths are three bits wide
MaxU64 == 7

\* 64 KiB, in bytes of the model
SixtyFourKiB == 2

Files == UNION {[1..n -> Bytes] : n \in 0..MaxFileLen}
Datas == UNION {[1..n -> Bytes] : n \in 0..MaxData}
Offsets == 0..MaxU64
Lengths == {NoLength} \cup (0..MaxFileLen)

FileChunk(offset, data, eof) == [offset |-> offset, data |-> data, eof |-> eof]

min(a, b) == IF a <= b THEN a ELSE b

\* the size of the buffer read_file hands to the one read it makes
to_read(file, offset, length) ==
    LET remaining == Len(file) - offset
    IN  IF length # NoLength THEN min(length, remaining) ELSE remaining

\* what one read into a buffer of that size may return: any number of bytes
\* from one up to the buffer's size, and nothing for an empty buffer
ReadReturns(size) == IF size = 0 THEN {0} ELSE 1..size

\* a read_file that does not seek: the bytes come from the start of the file
read_file_unseeked(file, offset, length, n) ==
    IF offset >= Len(file)
    THEN FileChunk(offset, <<>>, TRUE)
    ELSE FileChunk(offset, SubSeq(file, 1, n), offset + n >= Len(file))

\* a read_file that reports the end with every chunk
read_file_ending(file, offset, length, n) ==
    FileChunk(offset, SubSeq(file, offset + 1, offset + n), TRUE)

\* read_file, n being what the read returned
read_file(file, offset, length, n) ==
    LET file_len == Len(file)
    IN  IF offset >= file_len
        THEN FileChunk(offset, <<>>, TRUE)
        ELSE FileChunk(offset, SubSeq(file, offset + 1, offset + n), offset + n >= file_len)

\* u64::checked_add: None on overflow
Overflow == -1
checked_add(a, b) == IF a + b <= MaxU64 THEN a + b ELSE Overflow

\* File::set_len to a longer length: the new bytes are zero
set_len(file, len) == [i \in 1..len |-> IF i <= Len(file) THEN file[i] ELSE 0]

\* a write that does not seek: the bytes go to the start of the file
write_unseeked(file, offset, data, k) ==
    [i \in 1..Len(file) |-> IF i <= k THEN data[i] ELSE file[i]]

\* seek to offset and write the first k bytes of data
write_at(file, offset, data, k) ==
    [i \in 1..Len(file) |->
        IF i > offset /\ i <= offset + k THEN data[i - offset] ELSE file[i]]

WriteOutcomes == {"ok", "open failed", "set_len failed", "write failed"}

FileWriteAck(file, n) == [result |-> "ok", file |-> file, bytes_written |-> n]
WriteErr(file, error) == [result |-> error, file |-> file, bytes_written |-> 0]

\* write_file on the bytes of the file: outcome is what the file system does, k the bytes a failing
\* write_all had written; a file that does not exist is created empty
write_file_bytes(file, offset, data, outcome, k) ==
    LET required_len == checked_add(offset, Len(data))
        extended == IF required_len > Len(file) THEN set_len(file, required_len) ELSE file
    IN  IF outcome = "open failed" THEN WriteErr(file, "open failed")
        ELSE IF required_len = Overflow THEN WriteErr(file, "length overflow")
        ELSE IF outcome = "set_len failed" /\ required_len > Len(file)
        THEN WriteErr(file, "set_len failed")
        ELSE IF outcome = "write failed" /\ data # <<>>
        THEN WriteErr(write_at(extended, offset, data, k), "write failed")
        ELSE FileWriteAck(write_at(extended, offset, data, Len(data)), Len(data))

\* everything but the file, its reader and its writer
IoFrame ==
    UNCHANGED <<loopVars, authVars, scanVars, users, remote_updates, updateRx, updVars,
                extVars>>

\* the most requests one reader makes in a run
MaxCalls == MaxU64 + 2

\* a caller starts to read the file from offset 0, every request with the
\* same length
StartRead(length) ==
    /\ ~reader.active
    /\ reader' = [IdleReader EXCEPT !.active = TRUE, !.length = length]
    /\ UNCHANGED <<content, lastWrite>>
    /\ IoFrame

\* one ReadFile call at the reader's offset, answered by read_file; the
\* reader appends the chunk's data and moves its offset by the data's length
ReadNext(n) ==
    /\ reader.active /\ ~reader.eof
    /\ reader.calls < MaxCalls
    /\ n \in ReadReturns(IF reader.offset >= Len(content) THEN 0
                         ELSE to_read(content, reader.offset, reader.length))
    /\ LET chunk == read_file(content, reader.offset, reader.length, n)
       IN  reader' = [reader EXCEPT !.offset = reader.offset + Len(chunk.data),
                                    !.data = reader.data \o chunk.data,
                                    !.eof = chunk.eof,
                                    !.calls = reader.calls + 1,
                                    !.last = chunk.data]
    /\ UNCHANGED <<content, lastWrite>>
    /\ IoFrame

\* one WriteFile call, answered by write_file, while nobody reads the file
WriteFile(offset, data, outcome, k) ==
    /\ ~reader.active
    /\ lastWrite.result = "none"
    /\ LET out == write_file_bytes(content, offset, data, outcome, k)
       IN  /\ content' = out.file
           /\ lastWrite' = [offset |-> offset, data |-> data, old |-> content,
                            result |-> out.result, bytes_written |-> out.bytes_written]
    /\ UNCHANGED reader
    /\ IoFrame

(***************************************************************************)
(* Swarm events other than requests and responses: discovery and           *)
(* connections.                                                            *)
(***************************************************************************)

\* the most connections established in a run
MaxConnections == 2

Addrs == {"/ip4/10.0.0.1/tcp/7000", "/ip4/10.0.0.2/tcp/7000"}
LocalAddr == "/ip4/10.0.0.1/tcp/7000"
ConnectionIds == 1..MaxConnections

DiscoveredPeer(peer_id, multiaddr) == [peer_id |-> peer_id, multiaddr |-> multiaddr]
Connection(peer_id, connection_id) == [peer_id |-> peer_id, connection_id |-> connection_id]

Elems(seq) == {seq[i] : i \in 1..Len(seq)}

\* State::peer_discovered: the pair is kept once
peer_discovered(list, peer_id, multiaddr) ==
    IF DiscoveredPeer(peer_id, multiaddr) \in Elems(list) THEN list
    ELSE Append(list, DiscoveredPeer(peer_id, multiaddr))

\* State::peer_expired: the pair is removed
peer_expired(list, peer_id, multiaddr) ==
    SelectSeq(list, LAMBDA d : d # DiscoveredPeer(peer_id, multiaddr))

\* Swarm::dial returns a Result
DialResults == {"Ok", "Err"}

SwarmEvent(type, payload) == [type |-> type, id |-> 0, payload |-> payload]

\* mdns::Event::Discovered with one item: record the peer, then
\* swarm.dial(multiaddr).unwrap(), which panics on Err
Discovered(peer_id, multiaddr, dial) ==
    /\ loop = "running"
    /\ discovered_peers' = peer_discovered(discovered_peers, peer_id, multiaddr)
    /\ IF dial = "Err"
       THEN AppDropped("panicked")
       ELSE /\ event' = SwarmEvent("Discovered", peer_id)
            /\ UNCHANGED <<loop, cmdQueue, nsent, reply, pending_requests, outbound, nextId,
                           completed>>
    /\ UNCHANGED <<connections, peers, authVars, scanVars, users, remote_updates, updateRx,
                   updVars, ioVars, cancel_flag, frontVars>>

\* mdns::Event::Expired with one item
Expired(peer_id, multiaddr) ==
    /\ loop = "running"
    /\ DiscoveredPeer(peer_id, multiaddr) \in Elems(discovered_peers)
    /\ discovered_peers' = peer_expired(discovered_peers, peer_id, multiaddr)
    /\ event' = SwarmEvent("Expired", peer_id)
    /\ UNCHANGED <<loop, cmdQueue, nsent, reply, pending_requests, outbound, nextId,
                   completed, connections, peers, authVars, scanVars, users,
                   remote_updates, updateRx, updVars, ioVars, cancel_flag, frontVars>>

\* SwarmEvent::ConnectionEstablished: push the connection
ConnectionEstablished(peer_id, connection_id) ==
    /\ loop = "running"
    /\ connection_id \notin {c.connection_id : c \in connections}
    /\ connections' = connections \cup {Connection(peer_id, connection_id)}
    /\ event' = SwarmEvent("ConnectionEstablished", peer_id)
    /\ UNCHANGED <<loop, cmdQueue, nsent, reply, pending_requests, outbound, nextId,
                   completed, discovered_peers, peers, authVars, scanVars, users,
                   remote_updates, updateRx, updVars, ioVars, cancel_flag, frontVars>>

\* a ConnectionClosed handler that drops every connection of the peer
ConnectionClosedByPeer(connection_id) ==
    /\ loop = "running"
    /\ connection_id \in {c.connection_id : c \in connections}
    /\ connections' = {c \in connections :
                         \A d \in connections :
                             d.connection_id = connection_id => c.peer_id # d.peer_id}
    /\ event' = SwarmEvent("ConnectionClosed", "")
    /\ UNCHANGED <<loop, cmdQueue, nsent, reply, pending_requests, outbound, nextId,
                   completed, discovered_peers, peers, authVars, scanVars, users,
                   remote_updates, updateRx, updVars, ioVars, cancel_flag, frontVars>>

\* SwarmEvent::ConnectionClosed: retain the other connections
ConnectionClosed(connection_id) ==
    /\ loop = "running"
    /\ connection_id \in {c.connection_id : c \in connections}
    /\ connections' = {c \in connections : c.connection_id # connection_id}
    /\ event' = SwarmEvent("ConnectionClosed", "")
    /\ UNCHANGED <<loop, cmdQueue, nsent, reply, pending_requests, outbound, nextId,
                   completed, discovered_peers, peers, authVars, scanVars, users,
                   remote_updates, updateRx, updVars, ioVars, cancel_flag, frontVars>>

\* swarm events the loop matches and ignores or only logs; the other
\* variants of SwarmEvent are handled like IncomingConnectionError
IgnoredEvents == {"InboundFailure", "ResponseSent", "IncomingConnectionError",
                  "OutgoingConnectionError"}

Ignored(type) ==
    /\ loop = "running"
    /\ event # SwarmEvent(type, "")
    /\ event' = SwarmEvent(type, "")
    /\ UNCHANGED <<loop, cmdQueue, nsent, reply, pending_requests, outbound, nextId,
                   completed, authVars, scanVars, miscVars>>

\* the transport has received the response to an outbound request: the
\* swarm holds a Message::Response event the loop has not polled yet
ResponseArrives(r, response) ==
    /\ r \in outbound /\ r.res = NoResponse
    /\ outbound' = (outbound \ {r}) \cup {[r EXCEPT !.res = Res(response, "")]}
    /\ UNCHANGED <<loop, cmdQueue, nsent, reply, pending_requests, nextId, completed,
                   event, authVars, scanVars, miscVars>>

\* the swarm events that wait to be polled
InFlightEvents == {r \in outbound : r.res # NoResponse}

\* app.run() polls the swarm and gets the event of a response that arrived
PollResponse(r) ==
    /\ r \in InFlightEvents
    /\ DeliverResponse(r, r.res.type)

(***************************************************************************)
(* The catalog mutex.  The blocking worker of a local scan locks the       *)
(* catalog and runs the whole scan under the guard; the loop's handlers    *)
(* take the same std::sync::Mutex on the loop's own task.                  *)
(***************************************************************************)

\* a scan worker, of a local scan or of a scan served to a peer, holds the
\* guard from its start until scan_with_progress has returned
CatalogHeld == workers["local"] = "running" \/ workers["serve"] = "running"

\* the commands whose local handling locks the catalog: persist_local_cpus,
\* persist_local_interfaces, fetch_file_entries and fetch_storage_files
CatalogKinds == {"ListCpus", "ListInterfaces", "ListFileEntries"}
TouchesCatalog(cmd) ==
    \/ cmd.kind = "ListStorageFiles"
    \/ cmd.kind \in CatalogKinds /\ is_self(cmd.peer)

\* handle_cmd for a command that needs no lock another thread holds
HandleCmdUnblocked ==
    /\ cmdQueue # <<>>
    /\ Head(cmdQueue).kind \in CommandKinds
    /\ ~(TouchesCatalog(Head(cmdQueue)) /\ CatalogHeld)
    /\ HandleCmd

\* handle_cmd reaches self.db.lock() while the scan worker holds the guard:
\* the loop's thread waits inside the handler
BlockOnCatalog ==
    /\ loop = "running"
    /\ cmdQueue # <<>>
    /\ TouchesCatalog(Head(cmdQueue))
    /\ CatalogHeld
    /\ loop' = "waiting"
    /\ UNCHANGED <<cmdQueue, nsent, reply, pending_requests, outbound, nextId, completed,
                   event, authVars, scanVars, miscVars>>

\* the worker has dropped the guard: the handler gets the lock, finishes the
\* command and the loop goes on
ResumeCmd ==
    /\ loop = "waiting"
    /\ ~CatalogHeld
    /\ loop' = "running"
    /\ \E result \in LocalResults(Head(cmdQueue).kind) :
          reply' = send(reply, Head(cmdQueue).caller, result)
    /\ cmdQueue' = Tail(cmdQueue)
    /\ event' = NoEvent
    /\ UNCHANGED <<nsent, pending_requests, outbound, nextId, completed, authVars,
                   scanVars, miscVars>>

(***************************************************************************)
(* The HTTP API's sessions: login, the session cookie, logout.             *)
(***************************************************************************)

\* the clock stops here
MaxTime == 4
\* the most sessions created in a run
MaxSessions == 2

\* the lifetime of a session in ticks of the clock (seven days in the program)
SESSION_TTL_SECS == 2

\* the users table of the catalog, and what a client may type
Accounts == {<<"alice", "secret">>}
LoginNames == {"alice", "bob"}
LoginPasswords == {"secret", "guess"}

\* generate_session_token: 32 random bytes, here numbered in the order drawn;
\* a client may also present a token the server has not drawn
SessionTokens == 1..MaxSessions
PresentedTokens == 0..(MaxSessions + 1)
NoSessionUser == ""

\* auth::token_hash: SHA-256, which maps different tokens to different hashes
token_hash(token) == <<"sha256", token>>

Session(hash, username, issued_at, expires_at) ==
    [token_hash |-> hash, username |-> username, issued_at |-> issued_at,
     expires_at |-> expires_at]

\* PuppyNet::verify_user_credentials
verify_user_credentials(username, password) == <<username, password>> \in Accounts

\* PuppyNet::save_session: the session expires ttl_secs after now
save_session(table, hash, username, t, ttl_secs) ==
    {s \in table : s.token_hash # hash} \cup {Session(hash, username, t, t + ttl_secs)}

\* db::lookup_session_username without the expiry
lookup_session_username_unexpiring(table, hash, t) ==
    [sessions |-> table,
     user |-> IF \E s \in table : s.token_hash = hash
              THEN (CHOOSE s \in table : s.token_hash = hash).username
              ELSE NoSessionUser]

\* db::lookup_session_username: sessions with expires_at <= now are pruned,
\* then the hash is looked up
lookup_session_username(table, hash, t) ==
    LET live == {s \in table : s.expires_at > t}
    IN  [sessions |-> live,
         user |-> IF \E s \in live : s.token_hash = hash
                  THEN (CHOOSE s \in live : s.token_hash = hash).username
                  ELSE NoSessionUser]

\* db::delete_session
delete_session(table, hash) == {s \in table : s.token_hash # hash}

\* http_api::authenticate of a request that carries only the cookie sid
authenticate(table, token, t) == lookup_session_username(table, token_hash(token), t)

HttpFrame ==
    UNCHANGED <<loopVars, authVars, scanVars, users, remote_updates, updateRx, updVars,
                ioVars, netVars, cancel_flag, gui, delivery, catalog, lastRead,
                api>>

HttpResult(op, token, status, user) ==
    [http EXCEPT !.op = op, !.token = token, !.status = status, !.user = user, !.at = clock]

\* POST /auth/login
Login(username, password, set_cookie) ==
    /\ IF ~verify_user_credentials(username, password)
       THEN /\ http' = HttpResult("login", 0, 401, NoSessionUser)
            /\ UNCHANGED sessions
       ELSE IF set_cookie
       THEN /\ Cardinality(http.issued) < MaxSessions
            /\ LET token == Cardinality(http.issued) + 1
               IN /\ sessions' = save_session(sessions, token_hash(token), username, clock,
                                              SESSION_TTL_SECS)
                  /\ http' = [HttpResult("login", token, 200, username) EXCEPT
                                !.issued = @ \cup {[token |-> token, username |-> username,
                                                    expires_at |-> clock + SESSION_TTL_SECS]}]
       ELSE /\ http' = HttpResult("login", 0, 200, username)
            /\ UNCHANGED sessions
    /\ UNCHANGED clock
    /\ HttpFrame

\* a request to a path under /api with the cookie sid = token
ApiRequest(token) ==
    /\ LET found == authenticate(sessions, token, clock)
       IN /\ sessions' = found.sessions
          /\ http' = HttpResult("request", token,
                                IF found.user = NoSessionUser THEN 401 ELSE 200, found.user)
    /\ UNCHANGED clock
    /\ HttpFrame

\* POST /auth/logout with the cookie sid = token
Logout(token) ==
    /\ sessions' = delete_session(sessions, token_hash(token))
    /\ http' = [HttpResult("logout", token, 204, NoSessionUser) EXCEPT
                  !.revoked = @ \cup {i.token : i \in {j \in http.issued : j.token = token}}]
    /\ UNCHANGED clock
    /\ HttpFrame

\* time passes
ClockTick ==
    /\ clock < MaxTime
    /\ clock' = clock + 1
    /\ UNCHANGED <<sessions, http>>
    /\ HttpFrame

(***************************************************************************)
(* Pending<T> with the values of the responses: what a parked caller gets  *)
(* for every variant of PeerRes.                                           *)
(***************************************************************************)

\* the types T a Pending<T> is parked for, and the variant T::decode accepts
ResultTypes ==
    {"Vec<DirEntry>", "Vec<CpuInfo>", "Vec<DiskInfo>", "Vec<FileEntry>",
     "Vec<InterfaceInfo>", "Vec<Permission>", "FileChunk", "Thumbnail", "UpdateResult"}

Accepts(T) ==
    CASE T = "Vec<DirEntry>" -> "DirEntries"
      [] T = "Vec<CpuInfo>" -> "Cpus"
      [] T = "Vec<DiskInfo>" -> "Disks"
      [] T = "Vec<FileEntry>" -> "FileEntries"
      [] T = "Vec<InterfaceInfo>" -> "Interfaces"
      [] T = "Vec<Permission>" -> "Permissions"
      [] T = "FileChunk" -> "FileChunk"
      [] T = "Thumbnail" -> "Thumbnail"
      [] T = "UpdateResult" -> "UpdateStarted"

\* the variants of PeerRes a peer may answer with, and their payloads
PeerResVariants ==
    {"DirEntries", "Cpus", "Disks", "FileEntries", "Interfaces", "Permissions", "FileChunk",
     "Thumbnail", "UpdateStarted", "ScanStarted", "FileWriteAck", "Error"}
ErrorTexts == {"Access denied", "Internal error"}
Payloads(variant) ==
    IF variant = "Error" THEN ErrorTexts
    ELSE IF variant \in {"UpdateStarted", "ScanStarted"} THEN {"Ok", "no release"}
    ELSE {"v1", "v2"}
PeerResValue(variant, payload) == [type |-> variant, value |-> payload]
PeerResValues == {PeerResValue(v, x) : v \in PeerResVariants, x \in ErrorTexts \cup {"Ok", "no release", "v1", "v2"}}
RemoteAnswers == {r \in PeerResValues : r.value \in Payloads(r.type)}

\* Result<T>: Ok(value), or Err with the text of the error in pieces
OkValue(payload) == [ok |-> TRUE, value |-> payload, text |-> <<>>]
ErrText(text) == [ok |-> FALSE, value |-> "", text |-> text]

\* UpdateResult as its decoder builds it
UpdateResult(started) ==
    [success |-> started = "Ok",
     message |-> IF started = "Ok" THEN "Update started" ELSE started]

\* a decoder that takes the payload of any variant
decode_any(T, response) == OkValue(response.value)

\* T::decode: the accepted variant gives its value, any other an error
\* "unexpected response: {:?}"
decode_value(T, response) ==
    IF response.type = Accepts(T)
    THEN OkValue(IF T = "UpdateResult" THEN UpdateResult(response.value) ELSE response.value)
    ELSE ErrText(<<"unexpected response", ": ", response>>)

\* Pending<T>::complete: Error(err) is the error err, the rest is decoded
complete(T, response) ==
    IF response.type = "Error" THEN ErrText(<<response.value>>)
    ELSE decode_value(T, response)

\* Pending<T>::fail
fail(T, error) == ErrText(<<"request failed", ": ", error>>)

DeliveryFrame ==
    UNCHANGED <<loopVars, authVars, scanVars, users, remote_updates, updateRx, updVars,
                ioVars, netVars, cancel_flag, httpVars, gui, catalog, lastRead,
                api>>

\* a command parks a Pending<T>
Park(T) ==
    /\ delivery.T = "none"
    /\ delivery' = [NoDelivery EXCEPT !.T = T]
    /\ DeliveryFrame

\* Message::Response for the parked waiter
CompleteWaiter(response) ==
    /\ delivery.T # "none" /\ delivery.result = <<>>
    /\ delivery' = [delivery EXCEPT !.response = response,
                                    !.result = complete(delivery.T, response)]
    /\ DeliveryFrame

\* OutboundFailure for the parked waiter
FailWaiter(error) ==
    /\ delivery.T # "none" /\ delivery.result = <<>>
    /\ delivery' = [delivery EXCEPT !.result = fail(delivery.T, error)]
    /\ DeliveryFrame

\* the caller has taken its result
Receive ==
    /\ delivery.result # <<>>
    /\ delivery' = NoDelivery
    /\ DeliveryFrame

(***************************************************************************)
(* The scan engine on the catalog's file tables: file_entries, keyed by    *)
(* the hash of the contents, and file_locations, keyed by (node_id, path). *)
(***************************************************************************)

\* the most scans of the tree in a run
MaxPasses == 3

\* the files that may be under the scanned root, and what they may hold
TreePaths == {<<"a", "a">>, <<"a", "b">>, <<"a", "c">>}
Contents == {"x", "y"}
TreeFile(path, bytes) == [path |-> path, bytes |-> bytes]

\* SHA-256 of the contents: different contents, different hashes
sha256(bytes) == <<"sha256", bytes>>

FileLocation(node_id, path, hash) == [node_id |-> node_id, path |-> path, hash |-> hash]

\* the rows of file_locations the scan of the tree leaves for this node:
\* one per file found, with the latest hash
ScannedLocations(tree) == {FileLocation(Me, f.path, sha256(f.bytes)) : f \in tree}

\* file_entries merges by hash: a hash seen for the first time is inserted
upsert_entries(entries, tree) == entries \cup {sha256(f.bytes) : f \in tree}

\* a scan that counts every row it writes as updated
scan_counting_writes(cat) ==
    [cat EXCEPT !.file_entries = upsert_entries(@, cat.tree),
                !.file_locations = ScannedLocations(cat.tree),
                !.stats = ScanStats(0, Cardinality(cat.tree), 0)]

\* scan_with_progress on the tree: new paths are inserted, paths whose hash
\* changed are updated, locations whose file is gone are removed
scan_with_progress(cat) ==
    LET found == ScannedLocations(cat.tree)
        old == cat.file_locations
        oldPaths == {l.path : l \in old}
        newPaths == {l.path : l \in found}
    IN  [cat EXCEPT
           !.file_entries = upsert_entries(@, cat.tree),
           !.file_locations = found,
           !.stats = ScanStats(Cardinality({l \in found : l.path \notin oldPaths}),
                               Cardinality({l \in found : l.path \in oldPaths /\ l \notin old}),
                               Cardinality({l \in old : l.path \notin newPaths}))]

CatalogFrame ==
    UNCHANGED <<loopVars, authVars, scanVars, users, remote_updates, updateRx, updVars,
                ioVars, netVars, cancel_flag, httpVars, gui, delivery, lastRead,
                api>>

\* a file under the root is created or overwritten
WriteTreeFile(path, bytes) ==
    /\ TreeFile(path, bytes) \notin catalog.tree
    /\ catalog' = [catalog EXCEPT
                     !.tree = {f \in @ : f.path # path} \cup {TreeFile(path, bytes)},
                     !.dirty = TRUE]
    /\ CatalogFrame

\* a file under the root is deleted
RemoveTreeFile(path) ==
    /\ \E f \in catalog.tree : f.path = path
    /\ catalog' = [catalog EXCEPT !.tree = {f \in @ : f.path # path}, !.dirty = TRUE]
    /\ CatalogFrame

\* Command::Scan of the root, from the spawn of the worker to Finished(Ok)
ScanTree ==
    /\ catalog.passes < MaxPasses
    /\ catalog' = [scan_with_progress(catalog) EXCEPT
                     !.passes = @ + 1,
                     !.rescan = ~catalog.dirty,
                     !.dirty = FALSE]
    /\ CatalogFrame

(***************************************************************************)
(* The GUI: the menu, the mode, and the peer rows and graph nodes it       *)
(* builds from the node's State.                                           *)
(***************************************************************************)

\* the order of the peer ids as strings
IdOrder == <<"me", "p1", "p2">>
IdRank(id) == CHOOSE i \in 1..Len(IdOrder) : IdOrder[i] = id

\* the elements of a set of ids as a sequence, sorted
RECURSIVE SortedIds(_)
SortedIds(ids) ==
    IF ids = {} THEN <<>>
    ELSE LET least == CHOOSE x \in ids : \A y \in ids : IdRank(x) <= IdRank(y)
         IN  <<least>> \o SortedIds(ids \ {least})

\* the ids State holds, and the first address discovered for an id
StateIds(disc, conn, known) ==
    {disc[i].peer_id : i \in 1..Len(disc)} \cup {c.peer_id : c \in conn} \cup known \cup {Me}
FirstAddress(disc, id) ==
    LET at == {i \in 1..Len(disc) : disc[i].peer_id = id}
    IN  IF at = {} THEN ""
        ELSE disc[CHOOSE i \in at : \A j \in at : i <= j].multiaddr

\* the row aggregate_peers builds for an id
RowOf(disc, conn, known, id) ==
    LET found == FirstAddress(disc, id)
        status == IF id = Me THEN "local"
                  ELSE IF \E c \in conn : c.peer_id = id THEN "connected"
                  ELSE IF found # "" THEN "discovered"
                  ELSE ""
    IN  PeerRow(id, IF found = "" /\ id = Me THEN LOCAL_LISTEN_MULTIADDR ELSE found, status)

\* one row for every discovered pair, connection and known peer, and one for
\* the local peer
aggregate_peers_listed(disc, conn, known) ==
    [i \in 1..Len(disc) |-> PeerRow(disc[i].peer_id, disc[i].multiaddr, "discovered")]
    \o [i \in 1..Len(SortedIds({c.peer_id : c \in conn})) |->
          PeerRow(SortedIds({c.peer_id : c \in conn})[i], "", "connected")]
    \o <<LocalRow>>

\* aggregate_peers: one row per id, sorted by id
aggregate_peers(disc, conn, known) ==
    LET ids == SortedIds(StateIds(disc, conn, known))
    IN  [i \in 1..Len(ids) |-> RowOf(disc, conn, known, ids[i])]

RowIds(rows) == {rows[i].id : i \in 1..Len(rows)}

\* GraphView::set_peers
set_peers(g, rows) ==
    [g EXCEPT !.nodes = [i \in 1..Len(rows) |-> rows[i].id],
              !.selected = IF g.selected >= Len(rows) THEN 0 ELSE g.selected]

\* GraphView::selected_id
selected_id(g) == IF g.selected < Len(g.nodes) THEN g.nodes[g.selected + 1] ELSE ""

PeerModes == {"PeerActions", "PeerPermissions"}

\* GuiApp::refresh_from_state
refresh_from_state(g, disc, conn, known) ==
    LET rows == aggregate_peers(disc, conn, known)
        kept == IF g.selected_peer_id \in RowIds(rows) THEN g.selected_peer_id ELSE ""
        missing == g.mode \in PeerModes /\ g.mode_peer \notin RowIds(rows)
        graph == set_peers([g EXCEPT !.peers = rows, !.selected_peer_id = kept], rows)
        at == {i \in 1..Len(graph.nodes) : graph.nodes[i] = kept}
    IN  [graph EXCEPT !.mode = IF missing THEN "Peers" ELSE @,
                      !.mode_peer = IF missing THEN "" ELSE @,
                      !.selected = IF at = {} THEN @ ELSE (CHOOSE i \in at : TRUE) - 1]

MenuItems == {"Peers", "PeersGraph", "CreateUser", "FileSearch", "StorageUsage", "ScanResults"}

\* GuiApp::update, GuiMessage::MenuSelected, for every item but Quit
menu_selected(g, item, disc, conn, known) ==
    IF item = "Peers"
    THEN [refresh_from_state([g EXCEPT !.menu = item], disc, conn, known) EXCEPT
            !.mode = "Peers", !.mode_peer = ""]
    ELSE IF item = "PeersGraph"
    THEN LET r == refresh_from_state([g EXCEPT !.menu = item, !.mode = "PeersGraph",
                                               !.mode_peer = ""], disc, conn, known)
         IN  [r EXCEPT !.selected_peer_id = selected_id(r)]
    ELSE [g EXCEPT !.menu = item, !.mode = item, !.mode_peer = ""]

GuiFrame ==
    UNCHANGED <<loopVars, authVars, scanVars, users, remote_updates, updateRx, updVars,
                ioVars, netVars, cancel_flag, httpVars, delivery, catalog, lastRead,
                api>>

\* GuiMessage::Tick
GuiTick ==
    /\ gui' = refresh_from_state(gui, discovered_peers, connections, peers)
    /\ GuiFrame

\* GuiMessage::MenuSelected
MenuSelected(item) ==
    /\ gui' = menu_selected(gui, item, discovered_peers, connections, peers)
    /\ GuiFrame

\* GuiMessage::BackToPeers
BackToPeers ==
    /\ gui' = [gui EXCEPT !.menu = "Peers", !.mode = "Peers", !.mode_peer = ""]
    /\ GuiFrame

\* GuiMessage::PeerActionsRequested for a peer of a row on display
PeerActionsRequested(peer_id) ==
    /\ peer_id \in RowIds(gui.peers)
    /\ gui' = [gui EXCEPT !.mode = "PeerActions", !.mode_peer = peer_id,
                          !.selected_peer_id = peer_id]
    /\ GuiFrame

(***************************************************************************)
(* A request id the transport hands out twice.                             *)
(***************************************************************************)

\* handle_cmd for a command that addresses a remote peer, when send_request
\* returns an id under which a waiter is still parked
HandleCmdReusing(request_id) ==
    /\ loop = "running"
    /\ cmdQueue # <<>>
    /\ request_id \in Ids(pending_requests)
    /\ LET cmd == Head(cmdQueue)
           parked == insert(pending_requests, reply, cmd.kind,
                            Waiter(request_id, cmd.caller, Expected(cmd.kind)))
       IN /\ cmd.kind \in PeerAddressed
          /\ ~is_self(cmd.peer)
          /\ cmdQueue' = Tail(cmdQueue)
          /\ event' = NoEvent
          /\ outbound' = outbound \cup {Request(request_id, cmd.peer, RequestFor(cmd.kind))}
          /\ pending_requests' = parked.pending
          /\ reply' = parked.reply
    /\ UNCHANGED <<loop, nsent, nextId, completed, authVars, scanVars, miscVars>>

(***************************************************************************)
(* One read_file call at any offset, on a file or on a directory.          *)
(***************************************************************************)

PathKinds == {"file", "dir", "missing"}

ReadOk(chunk) == [ok |-> TRUE, chunk |-> chunk, error |-> ""]
ReadErr(error) == [ok |-> FALSE, chunk |-> FileChunk(0, <<>>, FALSE), error |-> error]

\* read_file on a path: open and metadata first, then the bytes
read_path(kind, file, offset, length, n) ==
    IF kind = "missing" THEN ReadErr("No such file or directory")
    ELSE IF kind = "dir" THEN ReadErr("path is a directory")
    ELSE ReadOk(read_file(file, offset, length, n))

\* a caller reads the file, a directory or a path that does not exist
ReadFileAt(kind, offset, length, n) ==
    /\ n \in ReadReturns(IF kind # "file" \/ offset >= Len(content) THEN 0
                         ELSE to_read(content, offset, length))
    /\ lastRead' = [kind |-> kind, offset |-> offset, length |-> length, file |-> content,
                    result |-> read_path(kind, content, offset, length, n)]
    /\ UNCHANGED <<loopVars, authVars, scanVars, users, remote_updates, updateRx, updVars,
                   ioVars, netVars, cancel_flag, httpVars, gui, delivery, catalog, api>>

(***************************************************************************)
(* The HTTP API's request gate and its scan sessions (http_api.rs).        *)
(***************************************************************************)

\* the secret the server signs with
JwtSecret == "server"

\* a verify_jwt that decodes the claims and checks only the expiry
verify_jwt_unsigned(token, secret, t) == token.exp >= t

\* auth::verify_jwt: the signature is checked with the secret, exp with the
\* clock
verify_jwt(token, secret, t) == token.key = secret /\ token.exp >= t

\* http_api::authenticate: the bearer token first, then the session cookie
authenticate_request(table, bearer, cookie, t) ==
    IF bearer # NoJwt /\ verify_jwt(bearer, JwtSecret, t)
    THEN [sessions |-> table, user |-> bearer.sub]
    ELSE IF cookie # NoCookie THEN authenticate(table, cookie, t)
    ELSE [sessions |-> table, user |-> NoSessionUser]

\* the decimal text of the ids, for scan_id.parse::<u64>(); 0 stands for Err
IdText == <<"1", "2", "3", "4", "5", "6">>
parse_u64(text) ==
    IF \E i \in 1..Len(IdText) : IdText[i] = text
    THEN CHOOSE i \in 1..Len(IdText) : IdText[i] = text
    ELSE 0

\* ApiState::insert_scan: the handle goes in under the next id
insert_scan(a) ==
    LET id == a.next_scan_id IN
    [a EXCEPT !.next_scan_id = @ + 1,
              !.scans = @ \cup {id},
              !.rx[id] = <<>>, !.flag[id] = FALSE, !.tx[id] = "running",
              !.issued = Append(@, id)]

\* the events try_recv yields until the channel is empty or one is Finished
Drained(buf) ==
    LET ends == {i \in 1..Len(buf) : buf[i].type = "Finished"} IN
    IF ends = {} THEN buf
    ELSE SubSeq(buf, 1, CHOOSE i \in ends : \A j \in ends : i <= j)

\* a poll_scan that keeps the scan after Finished
poll_scan_keeping(a, id) ==
    IF id \notin a.scans THEN [api |-> a, found |-> FALSE, events |-> <<>>]
    ELSE LET got == Drained(a.rx[id]) IN
         [api |-> [a EXCEPT !.rx[id] = SubSeq(@, Len(got) + 1, Len(@)),
                            !.polled[id] = @ \o got],
          found |-> TRUE, events |-> got]

\* ApiState::poll_scan
poll_scan(a, id) ==
    IF id \notin a.scans THEN [api |-> a, found |-> FALSE, events |-> <<>>]
    ELSE LET got == Drained(a.rx[id])
             is_done == got # <<>> /\ got[Len(got)].type = "Finished"
         IN  [api |-> [a EXCEPT !.rx[id] = SubSeq(@, Len(got) + 1, Len(@)),
                                !.scans = IF is_done THEN @ \ {id} ELSE @,
                                !.polled[id] = @ \o got],
              found |-> TRUE, events |-> got]

\* ApiState::cancel_scan
cancel_scan(a, id) ==
    IF id \in a.scans
    THEN [api |-> [a EXCEPT !.scans = @ \ {id}, !.flag[id] = TRUE,
                            !.cancelled = @ \cup {id}],
          found |-> TRUE]
    ELSE [api |-> a, found |-> FALSE]

is_protected(segments) == Len(segments) >= 1 /\ segments[1] = "api"

Answered(a, method, segments, user, status, route) ==
    [a EXCEPT !.last = [NoApiCall EXCEPT !.method = method, !.segments = segments,
                                         !.user = user, !.status = status,
                                         !.route = route]]

\* the scan named by the request had ended before the request
Gone(a, id) ==
    id \in ApiScanIds /\
    (id \in a.cancelled \/ \E i \in 1..Len(a.polled[id]) : a.polled[id][i].type = "Finished")

IsScanRoute(segments, verb) ==
    Len(segments) = 4 /\ segments[1] = "api" /\ segments[2] = "scans" /\ segments[4] = verb

IsPeerRoute(segments, what) ==
    Len(segments) = 4 /\ segments[1] = "api" /\ segments[2] = "peers" /\ segments[4] = what

\* the arms of handle_request's match that the model follows; the handlers
\* of the peer and update routes are named, their answer is theirs
route(a, method, segments, user, accepted) ==
    LET done(status, name) == Answered(a, method, segments, user, status, name)
        id == parse_u64(segments[3])
    IN
    CASE method = "OPTIONS" -> done(204, "none")
      [] method = "GET" /\ segments = <<"health">> -> done(200, "health")
      [] method = "GET" /\ segments = <<"auth", "me">> ->
            done(IF user = NoSessionUser THEN 401 ELSE 200, "me")
      [] method = "GET" /\ IsPeerRoute(segments, "dir") -> done(200, "list_dir")
      [] method = "GET" /\ IsPeerRoute(segments, "file") -> done(200, "read_file")
      [] method = "PUT" /\ IsPeerRoute(segments, "permissions") ->
            done(200, "set_permissions")
      [] method = "POST" /\ segments = <<"api", "scans">> ->
            IF accepted
            THEN LET next == insert_scan(a) IN
                 [Answered(next, method, segments, user, 201, "start_scan") EXCEPT
                    !.last.scan_id = a.next_scan_id]
            ELSE done(400, "start_scan")
      [] method = "GET" /\ IsScanRoute(segments, "events") ->
            IF id = 0 THEN done(400, "poll_scan")
            ELSE LET polled == poll_scan(a, id) IN
                 [Answered(polled.api, method, segments, user,
                           IF polled.found THEN 200 ELSE 404, "poll_scan") EXCEPT
                    !.last.scan_id = id, !.last.events = polled.events,
                    !.last.gone = Gone(a, id)]
      [] method = "POST" /\ IsScanRoute(segments, "cancel") ->
            IF id = 0 THEN done(400, "cancel_scan")
            ELSE LET cancelled == cancel_scan(a, id) IN
                 [Answered(cancelled.api, method, segments, user,
                           IF cancelled.found THEN 204 ELSE 404, "cancel_scan") EXCEPT
                    !.last.scan_id = id, !.last.gone = Gone(a, id)]
      [] method = "POST" /\ Len(segments) = 3 /\ segments[1] = "api"
                         /\ segments[2] = "updates" -> done(200, "start_update")
      [] method = "GET" -> done(200, "static")
      [] OTHER -> done(404, "none")

\* http_api::handle_request: requests under /api that are not OPTIONS and
\* carry no credentials are answered 401 before the routes are matched
handle_request(a, table, t, method, segments, bearer, cookie, accepted) ==
    LET auth_user ==
            IF is_protected(segments) \/ segments = <<"auth", "me">>
            THEN authenticate_request(table, bearer, cookie, t)
            ELSE [sessions |-> table, user |-> NoSessionUser]
        answered ==
            IF is_protected(segments) /\ method # "OPTIONS" /\ auth_user.user = NoSessionUser
            THEN Answered(a, method, segments, NoSessionUser, 401, "none")
            ELSE route(a, method, segments, auth_user.user, accepted)
    IN  [sessions |-> auth_user.sessions,
         api |-> [answered EXCEPT !.last.bearer = bearer, !.last.cookie = cookie]]

ApiFrame ==
    UNCHANGED <<loopVars, authVars, scanVars, users, remote_updates, updateRx, updVars,
                ioVars, netVars, cancel_flag, gui, delivery, catalog, lastRead>>

\* one HTTP request is answered
HandleHttp(method, segments, bearer, cookie, accepted) ==
    /\ (method = "POST" /\ segments = <<"api", "scans">>) => api.next_scan_id <= MaxApiScans
    /\ LET out == handle_request(api, sessions, clock, method, segments, bearer, cookie,
                                 accepted)
       IN /\ api' = out.api
          /\ sessions' = out.sessions
    /\ UNCHANGED <<clock, http>>
    /\ ApiFrame

\* the worker of scan id sends an event on its channel; the send fails, and
\* the error is dropped, when the handle with the receiver is gone
ScanWorkerSends(id, ev) ==
    /\ api.tx[id] = "running"
    /\ ev.type = "Progress" => Len(api.sent[id]) < MaxApiEvents
    /\ api' = [api EXCEPT
                 !.tx[id] = IF ev.type = "Finished" THEN "done" ELSE @,
                 !.rx[id] = IF id \in api.scans THEN Append(@, ev) ELSE @,
                 !.sent[id] = IF id \in api.scans THEN Append(@, ev) ELSE @]
    /\ UNCHANGED <<clock, http, sessions>>
    /\ ApiFrame

\* wait(): the shutdown signal breaks the task's loop
Shutdown ==
    /\ loop = "running"
    /\ AppDropped("stopped")
    /\ UNCHANGED <<authVars, scanVars, miscVars>>

InitLoop ==
    /\ permissions = [p \in RemotePeers |-> {}]
    /\ shared_folders = {}
    /\ files = InitFiles
    /\ last = NoRequest
    /\ IdleLoop
    /\ IdleScan
    /\ IdleMisc

NextLoop ==
    \/ \E kind \in CommandKinds : \E peer \in CommandTargets(kind) : SendCommand(kind, peer)
    \/ HandleCmd
    \/ \E r \in outbound : \E response \in ResponsesTo(r.req) : DeliverResponse(r, response)
    \/ \E r \in outbound : \E cause \in OutboundFailures : DeliverFailure(r, cause)
    \/ \E peer \in RemotePeers : HandleRequest(peer, UserReq("Authenticate", ""), TRUE)
    \/ Shutdown

SpecLoop == InitLoop /\ [][NextLoop]_vars

\* the loop is scheduled whenever a command is queued, and the transport
\* resolves every outbound request with a response or with a failure (its
\* request timeout at the latest)
Resolve ==
    \E r \in outbound :
        \/ \E response \in ResponsesTo(r.req) : DeliverResponse(r, response)
        \/ \E cause \in OutboundFailures : DeliverFailure(r, cause)

FairSpecLoop == SpecLoop /\ WF_vars(HandleCmd) /\ WF_vars(Resolve)

Callers == 1..MaxCommands

Resolves(r) == loop' = "running" /\ r \in outbound /\ r \notin outbound'

DeliveredValue(w, ev) ==
    IF ev.type = "OutboundFailure" THEN RequestFailed(ev.payload)
    ELSE IF ev.payload = "Error" THEN Err(ErrorText)
    ELSE IF ev.payload = w.expects THEN Ok
    ELSE Err("unexpected response")

\* C7: when a response or an outbound failure for request id r arrives and a
\* waiter is parked under r, the waiter is removed and its caller receives
\* exactly one value, the decoded response or "request failed: <cause>"; no
\* reply channel ever carries two values and no completed id is still parked.
C7_WaiterCompletedOnce ==
    /\ [](\A c \in Callers : reply[c].n <= 1)
    /\ [](completed \cap Ids(pending_requests) = {})
    /\ [][\A r \in outbound : \A w \in pending_requests :
            (Resolves(r) /\ w.id = r.id) =>
                /\ w \notin pending_requests'
                /\ event'.id = r.id
                /\ event'.type \in {"Response", "OutboundFailure"}
                /\ reply[w.caller].st = "waiting"
                /\ reply'[w.caller] =
                      [st |-> "value", val |-> DeliveredValue(w, event'), n |-> 1]
                /\ \A c \in Callers \ {w.caller} : reply'[c] = reply[c]]_vars

\* a failure has just been delivered to one caller while another is parked
C7_Witness ==
    /\ event.type = "OutboundFailure"
    /\ event.id \in completed
    /\ \E c \in Callers : reply[c].val = RequestFailed(event.payload)
    /\ pending_requests # {}

\* the step in which the loop handles the command at the head of the queue
HandlesCommand ==
    loop' = "running" /\ cmdQueue # <<>> /\ cmdQueue' = Tail(cmdQueue)

\* C8: a peer-addressed command for the local identity is answered while it
\* is handled, with no request sent and pending_requests unchanged; for any
\* other peer exactly one request is sent to that peer, exactly one waiter is
\* parked under its id, and the reply channel stays empty while it is parked.
C8_LocalOrOneRequest ==
    /\ [](\A w \in pending_requests :
            reply[w.caller].st = "waiting" /\ reply[w.caller].n = 0)
    /\ [][(HandlesCommand /\ Head(cmdQueue).kind \in PeerAddressed) =>
            LET cmd == Head(cmdQueue) IN
            IF cmd.peer = Me
            THEN /\ reply'[cmd.caller].st = "value"
                 /\ reply'[cmd.caller].n = 1
                 /\ outbound' = outbound
                 /\ pending_requests' = pending_requests
            ELSE /\ \E r \in outbound' \ outbound :
                        /\ outbound' = outbound \cup {r}
                        /\ r.peer = cmd.peer
                        /\ r.req = RequestFor(cmd.kind)
                        /\ r.req.type \in {"ListDir", "ListCpus", "ListDisks",
                              "ListInterfaces", "FileEntries", "ListPermissions",
                              "ReadFile", "GetThumbnail"}
                        /\ \E w \in pending_requests' \ pending_requests :
                              /\ pending_requests' = pending_requests \cup {w}
                              /\ w.id = r.id
                              /\ w.caller = cmd.caller
                 /\ Cardinality(outbound') = Cardinality(outbound) + 1
                 /\ Cardinality(pending_requests') = Cardinality(pending_requests) + 1
                 /\ reply' = reply]_vars

\* one command was answered locally and another is parked on a remote peer
C8_Witness ==
    \E c, d \in Callers :
        /\ reply[c].st = "value" /\ reply[c].val = Ok /\ completed = {}
        /\ \E w \in pending_requests : w.caller = d /\ w.id \in Ids(outbound)
        /\ reply[d].st = "waiting"

InitScan ==
    /\ permissions = [p \in RemotePeers |->
                        IF p = Initiator THEN {Folder(<<"a">>, ReadSearch)} ELSE {}]
    /\ shared_folders = {}
    /\ files = InitFiles
    /\ last = NoRequest
    /\ IdleLoop
    /\ node_id_known \in BOOLEAN
    /\ remote_scan_counter = FirstScanId
    /\ remote_scans = {}
    /\ remoteRx = <<>>
    /\ localRx = <<>>
    /\ workers = [t \in Tasks |-> "none"]
    /\ emitted = [t \in {"local", "serve"} |-> 0]
    /\ progress_rx = <<>>
    /\ internal_rx = <<>>
    /\ forwarded = <<>>
    /\ IdleMisc

NextScan ==
    \/ \E path \in ScanPaths : ScanFolder(path)
    \/ HandleScanCmd
    \/ LocalWorkerProgress
    \/ \E result \in ScanResults : LocalWorkerFinish(result)
    \/ \E path \in ScanPaths : ScanRemotePeer(path)
    \/ HandleRemoteScanCmd
    \/ \E r \in outbound : ServeStartScan(r)
    \/ \E r \in outbound : DeliverScanStarted(r)
    \/ \E r \in outbound : FailStartScan(r)
    \/ ServeWorkerProgress
    \/ \E result \in ScanResults : ServeWorkerFinish(result)
    \/ Forward
    \/ HandleInternalCmd
    \/ \E r \in outbound : ReceiveScanEvent(r)
    \/ \E r \in outbound : DeliverScanEventAck(r)
    \/ \E r \in outbound : FailScanEvent(r)

SpecScan == InitScan /\ [][NextScan]_vars

\* at most one Finished, and nothing after it
WellFormed(stream) ==
    \A i \in 1..Len(stream) : stream[i].type = "Finished" => i = Len(stream)

FinishedCount(stream) ==
    Cardinality({i \in 1..Len(stream) : stream[i].type = "Finished"})

\* C9: every scan stream is Progress events followed by one Finished and
\* nothing after it: what the local receiver gets, what the serving node
\* sends for a StartScan request and what the initiator's receiver gets; a
\* local scan that has ended, by a missing node id or by the scan's result,
\* good or bad, has got exactly one Finished.
C9_ProgressThenOneFinished ==
    /\ WellFormed(localRx)
    /\ WellFormed(forwarded)
    /\ WellFormed(remoteRx)
    /\ workers["local"] \in {"done", "refused"} <=> FinishedCount(localRx) = 1
    /\ workers["local"] = "refused" =>
          localRx = <<Finished("failed to determine node id")>>
    /\ (workers["serve"] = "done" /\ progress_rx = <<>> /\ internal_rx = <<>>)
          <=> FinishedCount(forwarded) = 1

\* a failed local scan and a remote scan have both streamed to their end
C9_Witness ==
    /\ Len(localRx) >= 2 /\ localRx[Len(localRx)] = Finished("scan failed")
    /\ Len(forwarded) >= 2 /\ FinishedCount(forwarded) = 1
    /\ Len(remoteRx) >= 2 /\ FinishedCount(remoteRx) = 1

\* nothing is queued, in flight or running any more
Quiescent ==
    /\ cmdQueue = <<>> /\ outbound = {} /\ pending_requests = {}
    /\ progress_rx = <<>> /\ internal_rx = <<>>
    /\ workers["serve"] # "running"
    /\ workers["local"] \notin {"queued", "running"}

\* C10: once a started scan has nothing left to do, its receiver has got the
\* terminal Finished event, for the local scan and for the remote scan.
C10_FinishedAlwaysDelivered ==
    Quiescent =>
        /\ workers["local"] # "none" => FinishedCount(localRx) = 1
        /\ remote_scan_counter # FirstScanId => FinishedCount(remoteRx) = 1

\* the serving node has sent Finished, the request failed in transport, and
\* the initiator is left with a registered sender and no Finished
C10_Witness ==
    /\ Quiescent
    /\ FinishedCount(forwarded) = 1
    /\ FirstScanId \in remote_scans
    /\ FinishedCount(remoteRx) = 0

\* the initiator's stream was not ended by the start waiter: every Finished
\* in it carries a result of the worker
StartedStream(stream) ==
    \A i \in 1..Len(stream) :
        stream[i].type = "Finished" => stream[i].res \in ScanResults

\* C11: the initiator's receiver gets the remote worker's events in the order
\* the worker emitted them: what it has got is an initial segment of what the
\* serving node sent, and once it has got the worker's Finished it has got
\* every Progress before it.
C11_EventsInWorkerOrder ==
    StartedStream(remoteRx) =>
        /\ IsPrefix(remoteRx, forwarded)
        /\ (remoteRx # <<>> /\ remoteRx[Len(remoteRx)].type = "Finished")
              => remoteRx = forwarded

\* the worker emitted Progress(1), Progress(2), Finished; the initiator's
\* receiver got the Finished of the worker with a Progress missing before it
C11_Witness ==
    /\ Len(forwarded) = 3 /\ forwarded[3].type = "Finished"
    /\ remoteRx # <<>> /\ remoteRx[Len(remoteRx)] = forwarded[3]
    /\ Len(remoteRx) < 3

(***************************************************************************)
(* Specification SpecUpdate: one update per run, started on the command    *)
(* line, as a local self-update or as a remote update between two nodes.   *)
(***************************************************************************)

InitUpdate ==
    /\ permissions = [p \in RemotePeers |-> {}]
    /\ shared_folders = {}
    /\ files = InitFiles
    /\ last = NoRequest
    /\ IdleLoop
    /\ IdleScan
    /\ IdleMisc

NoUpdateYet == remote_update_counter = FirstUpdateId /\ updater.pc = "idle"

NextUpdater ==
    \/ Begin
    \/ \E outcome \in FetchOutcomes, tag \in Tags : Fetched(outcome, tag)
    \/ \E ok \in BOOLEAN : Downloaded(ok)
    \/ \E ok \in BOOLEAN, unpacked \in ArchiveContents : Unpacked(ok, unpacked)
    \/ \E verdict \in VerifyOutcomes : Verified(verdict)
    \/ \E outcome \in InstallOutcomes, partial \in BOOLEAN : Installed(outcome, partial)

\* the event requests the serving node has sent and that are not resolved yet
InFlight == Cardinality({r \in outbound : r.req.type \in {"ScanEvent", "UpdateEvent"}})

NextRemoteUpdate ==
    \/ NoUpdateYet /\ \E version \in Versions : UpdateRemotePeer(version)
    \/ HandleRemoteUpdateCmd
    \/ \E r \in outbound : ServeUpdateSelf(r)
    \/ \E r \in outbound : DeliverUpdateStarted(r)
    \/ \E r \in outbound : FailUpdateSelf(r)
    \/ InFlight < MaxInFlight /\ HandleInternalCmd
    \/ \E r \in outbound : ReceiveUpdateEvent(r)
    \/ \E r \in outbound : ResolveUpdateEvent(r)

\* the updater on one node: the command line's update and the local
\* self-update
NextLocalUpdate ==
    \/ NoUpdateYet /\ \E version \in Versions : UpdateSelfLocal(version)
    \/ NoUpdateYet /\ \E version \in Versions, current_version \in CurrentVersions :
                         CliUpdate(version, current_version)
    \/ NextUpdater

SpecUpdater == InitUpdate /\ [][NextLocalUpdate]_vars

NextUpdate ==
    \/ NextLocalUpdate
    \/ NextRemoteUpdate

SpecUpdate == InitUpdate /\ [][NextUpdate]_vars

TerminalCount(stream) ==
    Cardinality({i \in 1..Len(stream) : stream[i].type \in TerminalUpdateEvents})

\* the stages after FetchingRelease, in order
Pipeline == <<"Downloading", "Unpacking", "Verifying", "Installing", "Completed">>
Types(stream) == [i \in 1..Len(stream) |-> stream[i].type]

\* FetchingRelease, then AlreadyUpToDate or an initial segment of the
\* pipeline, which Failed may cut short
StageOrdered(types) ==
    \/ types = <<>>
    \/ /\ types[1] = "FetchingRelease"
       /\ LET rest == Tail(types) IN
          \/ rest = <<"AlreadyUpToDate">>
          \/ \E k \in 0..Len(Pipeline) : rest = SubSeq(Pipeline, 1, k)
          \/ \E k \in 0..(Len(Pipeline) - 1) :
                rest = Append(SubSeq(Pipeline, 1, k), "Failed")

Terminated(stream) ==
    \A i \in 1..Len(stream) :
        stream[i].type \in TerminalUpdateEvents => i = Len(stream)

\* nothing of the update is queued, in flight or running any more
UpdateQuiescent ==
    /\ updater.pc = "returned"
    /\ cmdQueue = <<>> /\ outbound = {} /\ internal_rx = <<>>

\* C15: every update stream is terminated by a single terminal event: the
\* receiver of a local self-update and the receiver of a remote update never
\* get an event after Completed, Failed or AlreadyUpToDate, and once the
\* updater has returned and nothing is in flight they have got exactly one of
\* them, whatever the point at which the pipeline failed.
C15_OneTerminalEvent ==
    /\ Terminated(selfRx)
    /\ Terminated(updateRx)
    /\ (UpdateQuiescent /\ updater.mode = "local") => TerminalCount(selfRx) = 1
    /\ (UpdateQuiescent /\ updater.mode = "serve") => TerminalCount(updateRx) = 1

\* a local self-update whose archive holds no signature: the receiver has
\* got Failed from the callback and Failed again from the caller of the
\* updater
C15_Witness ==
    /\ updater.mode = "local" /\ updater.error = "Signature file not found"
    /\ Len(selfRx) = 6
    /\ selfRx[5] = Failed("Signature file not found")
    /\ selfRx[6] = Failed("Signature file not found")

\* C16: the binary in the bin directory is written only after the signature
\* check of the staged binary returned true; when it returned false the
\* events end with Verifying, Failed("Signature verification failed"), no
\* Installing or Completed was emitted, the file in bin/ is unchanged and
\* the staged binary and signature are still there.
C16_InstallOnlyAfterVerification ==
    /\ bin_file # "old" => updater.verified = "true"
    /\ updater.verified = "false" =>
          /\ Len(events) >= 2
          /\ events[Len(events) - 1] = Verifying
          /\ events[Len(events)] = Failed("Signature verification failed")
          /\ \A i \in 1..Len(events) : events[i].type \notin {"Installing", "Completed"}
          /\ bin_file = "old"
          /\ BinName \in app_dir /\ sig_path(app_dir) # NoSig

\* the archive held bin/puppynet beside a binary whose signature does not
\* verify: the update has failed and the installed binary is replaced
C16_Witness ==
    /\ updater.verified = "false" /\ updater.result = "Err"
    /\ events[Len(events)] = Failed("Signature verification failed")
    /\ bin_file = "unpacked"

\* the tags that are a u32, with their number
NumericTags == {"0", "42", "43", "+42"}
TagNumber(tag) ==
    CASE tag = "0" -> 0 [] tag = "42" -> 42 [] tag = "43" -> 43 [] tag = "+42" -> 42

\* the release has been fetched and it has a tag
ReleaseFetched ==
    /\ updater.pc \notin {"idle", "spawned", "fetch"}
    /\ updater.error \notin {"fetch failed", "release response missing tag_name"}

\* no explicit version, and the tag is a u32 that is at most current_version
UpToDate ==
    /\ ~updater.version.some
    /\ updater.tag \in NumericTags
    /\ TagNumber(updater.tag) <= updater.current_version

\* C17: with no explicit version and a release tag that parses as a u32 less
\* than or equal to current_version, the updater emits AlreadyUpToDate,
\* returns success and emits no Downloading or later stage; with an explicit
\* version or a tag that is not numeric the short circuit is never taken.
C17_ShortCircuit ==
    ReleaseFetched =>
        /\ UpToDate =>
              /\ events = <<FetchingRelease, AlreadyUpToDate(updater.current_version)>>
              /\ updater.pc = "returned" /\ updater.result = "Ok"
        /\ ~UpToDate =>
              \A i \in 1..Len(events) : events[i].type # "AlreadyUpToDate"

\* the command line's update of version 42 finds the release tagged 42
C17_Witness ==
    /\ updater.mode = "direct" /\ updater.current_version = 42 /\ updater.tag = "42"
    /\ ~updater.version.some
    /\ events = <<FetchingRelease, AlreadyUpToDate(42)>>
    /\ updater.result = "Ok"

(***************************************************************************)
(* Specification SpecStart: one remote stream per run, a scan or an        *)
(* update, between an initiating node and a serving node that runs this    *)
(* program or answers the start request as a peer of another build may.    *)
(***************************************************************************)

InitStart ==
    /\ InitScan
    /\ node_id_known = TRUE

NoStreamYet == NoUpdateYet /\ remote_scan_counter = FirstScanId

NextStart ==
    \/ NoStreamYet /\ \E path \in ScanPaths : ScanRemotePeer(path)
    \/ HandleRemoteScanCmd
    \/ \E r \in outbound : ServeStartScan(r)
    \/ \E r \in outbound : DeliverScanStarted(r)
    \/ \E r \in outbound : FailStartScan(r)
    \/ ServeWorkerProgress
    \/ \E result \in ScanResults : ServeWorkerFinish(result)
    \/ Forward
    \/ \E r \in outbound : ReceiveScanEvent(r)
    \/ \E r \in outbound : DeliverScanEventAck(r)
    \/ \E r \in outbound : FailScanEvent(r)
    \/ NoStreamYet /\ \E version \in Versions : UpdateRemotePeer(version)
    \/ HandleRemoteUpdateCmd
    \/ \E r \in outbound : ServeUpdateSelf(r)
    \/ \E r \in outbound : DeliverUpdateStarted(r)
    \/ \E r \in outbound : FailUpdateSelf(r)
    \/ InFlight < MaxInFlight /\ HandleInternalCmd
    \/ \E r \in outbound : ReceiveUpdateEvent(r)
    \/ \E r \in outbound : ResolveUpdateEvent(r)
    \/ NextUpdater
    \/ \E r \in outbound : \E res \in StartAnswers(r.req.type) : PeerAnswers(r, res)

SpecStart == InitStart /\ [][NextStart]_vars

\* the start of the stream of request r has failed in this step: the answer
\* is Started(Err(e)), or the request has failed in transport
ScanStartFails(r) ==
    /\ r.req.type = "StartScan"
    /\ \/ FailStartScan(r)
       \/ r.res.type = "ScanStarted" /\ r.res.msg # "Ok" /\ DeliverScanStarted(r)
UpdateStartFails(r) ==
    /\ r.req.type = "UpdateSelf"
    /\ \/ FailUpdateSelf(r)
       \/ r.res.type = "UpdateStarted" /\ r.res.msg # "Ok" /\ DeliverUpdateStarted(r)

\* C12: when the start of a remote scan or a remote update fails, by
\* ScanStarted(Err) / UpdateStarted(Err) or in transport, the id is no longer
\* in remote_scans / remote_updates and the initiator's receiver has got
\* exactly one terminal event, Finished(Err) / Failed, and nothing after it.
C12_StartFailureEndsStream ==
    [][\A r \in outbound :
          /\ ScanStartFails(r) =>
                /\ r.req.id \notin remote_scans'
                /\ FinishedCount(remoteRx') = 1
                /\ WellFormed(remoteRx')
                /\ r.req.id \in remote_scans =>
                      remoteRx'[Len(remoteRx')] \in
                          {Finished(ScanFailure), Finished(r.res.msg)}
          /\ UpdateStartFails(r) =>
                /\ r.req.id \notin remote_updates'
                /\ TerminalCount(updateRx') = 1
                /\ updateRx'[Len(updateRx')].type \in TerminalUpdateEvents
                /\ r.req.id \in remote_updates =>
                      updateRx'[Len(updateRx')] \in
                          {Failed(ScanFailure), Failed(r.res.msg)}]_vars

\* the serving node has started the updater and its first events have
\* arrived, then UpdateSelf failed in transport: the stream ends with Failed
C12_Witness ==
    /\ Len(updateRx) >= 2
    /\ updateRx[Len(updateRx)] = Failed(ScanFailure)
    /\ remote_update_counter # FirstUpdateId
    /\ remote_updates = {}

\* the answer to the start request r is delivered in this step and it is not
\* the variant the start waiter expects
UnexpectedScanAnswer(r) ==
    /\ r.req.type = "StartScan"
    /\ r.res # NoResponse /\ r.res.type # "ScanStarted"
    /\ DeliverScanStarted(r)
UnexpectedUpdateAnswer(r) ==
    /\ r.req.type = "UpdateSelf"
    /\ r.res # NoResponse /\ r.res.type # "UpdateStarted"
    /\ DeliverUpdateStarted(r)

\* C13: when the answer to a StartScan or UpdateSelf request is a variant
\* other than ScanStarted / UpdateStarted, the start waiter fails the stream:
\* the map entry is removed and the initiator's receiver has got a terminal
\* error event.
C13_UnexpectedAnswerFailsStream ==
    [][\A r \in outbound :
          /\ UnexpectedScanAnswer(r) =>
                (r.req.id \notin remote_scans' /\ FinishedCount(remoteRx') = 1)
          /\ UnexpectedUpdateAnswer(r) =>
                (r.req.id \notin remote_updates' /\ TerminalCount(updateRx') = 1)]_vars

\* the peer has answered StartScan with Error("Internal error") and the
\* answer was delivered: nothing is in flight, the sender is still registered
\* and the receiver has got nothing
C13_Witness ==
    /\ remote_scans = {FirstScanId}
    /\ remoteRx = <<>>
    /\ completed # {} /\ pending_requests = {} /\ outbound = {} /\ cmdQueue = <<>>
    /\ workers["serve"] = "none"

(***************************************************************************)
(* Specification SpecCancel: the scans of SpecScan, whose handles may be   *)
(* cancelled.                                                              *)
(***************************************************************************)

\* the receiver of a handle's stream
Stream(h) == IF h = "scan_folder" THEN localRx ELSE remoteRx

\* the handle has been returned to a caller
Returned(h) ==
    IF h = "scan_folder" THEN workers["local"] # "none"
    ELSE remote_scan_counter # FirstScanId

\* ScanHandle::cancel: store true in the handle's flag.  The flag of a
\* scan_folder handle travels in Command::Scan, whose handler binds path and
\* tx only; the flag of a scan_remote_peer handle is shared with nobody.
Cancel(h) ==
    /\ Returned(h)
    /\ FinishedCount(Stream(h)) = 0
    /\ ~cancel_flag[h]
    /\ cancel_flag' = [cancel_flag EXCEPT ![h] = TRUE]
    /\ UNCHANGED <<loopVars, authVars, scanVars, users, remote_updates, updateRx, updVars,
                   ioVars, netVars, frontVars>>

InitCancel == InitScan

NextCancel ==
    \/ NextScan
    \/ \E h \in ScanHandles : Cancel(h)

SpecCancel == InitCancel /\ [][NextCancel]_vars

\* C24: a stream whose handle was cancelled before the scan had finished
\* ends with Finished(Err("cancelled")), for scan_folder handles and for
\* scan_remote_peer handles.
C24_CancelSurfaces ==
    \A h \in ScanHandles :
        (cancel_flag[h] /\ FinishedCount(Stream(h)) = 1) =>
            Stream(h)[Len(Stream(h))] = Finished("cancelled")

\* the handle of a remote scan was cancelled before the stream had ended, and
\* the stream has gone on to end with the scan's own result
C24_Witness ==
    /\ cancel_flag["scan_remote_peer"]
    /\ Len(remoteRx) >= 2
    /\ remoteRx[1] = Progress(1)
    /\ remoteRx[Len(remoteRx)] = Finished("Ok")

InitIo ==
    /\ permissions = [p \in RemotePeers |-> {}]
    /\ shared_folders = {}
    /\ files = InitFiles
    /\ last = NoRequest
    /\ IdleLoop
    /\ node_id_known = TRUE
    /\ IdleScan
    /\ users = {}
    /\ remote_updates = {}
    /\ updateRx = <<>>
    /\ IdleUpdate
    /\ IdleExt
    /\ content \in Files
    /\ reader = IdleReader
    /\ lastWrite = NoWrite

NextIo ==
    \/ \E length \in Lengths : StartRead(length)
    \/ \E n \in 0..MaxU64 : ReadNext(n)
    \/ \E offset \in Offsets, data \in Datas, outcome \in WriteOutcomes, k \in 0..MaxData :
          /\ k < Len(data) \/ (k = 0 /\ outcome = "ok")
          /\ WriteFile(offset, data, outcome, k)

SpecIo == InitIo /\ [][NextIo]_vars

\* the reader has got the bytes of the file below its offset
ReadSoFar == reader.data = SubSeq(content, 1, reader.offset)

\* the requests a reader needs at most: one for every byte, one for an empty file
EnoughCalls == IF Len(content) = 0 THEN 1 ELSE Len(content)

\* the iteration ends and has then got the whole file
Complete ==
    /\ ReadSoFar
    /\ (reader.calls > 0 /\ ~reader.eof) => reader.last # <<>>
    /\ reader.calls <= EnoughCalls
    /\ reader.eof =>
          /\ reader.data = content
          /\ Len(reader.data) = Len(content)

\* C18 as stated: a caller that starts at offset 0 and asks again at offset +
\* len(data) of the previous chunk reaches a chunk with eof = true, and the
\* data it has got is then the file's bytes, whatever length it asks for.
C18_ReadFileComplete == reader.active => Complete

\* C18, amended: the same for a caller that gives no length or a length of at
\* least one byte: every chunk but the last carries data, the iteration ends
\* within one request per byte, and the concatenation is the file.
C18_ReadFileCompleteForPositiveLength ==
    (reader.active /\ reader.length # 0) => Complete

\* a file of three bytes has been read to its end in more than one chunk
C18_Witness ==
    /\ reader.active /\ reader.eof
    /\ reader.calls >= 2
    /\ Len(content) = MaxFileLen
    /\ reader.data = content

\* C19: a ReadFile call without a length returns at most 64 KiB, so the first
\* chunk of a file larger than 64 KiB holds at most 64 KiB and has eof = false;
\* a call with a length returns at most that many bytes.
C19_DefaultChunkCap ==
    (reader.active /\ reader.calls > 0) =>
        /\ reader.length # NoLength => Len(reader.last) <= reader.length
        /\ reader.length = NoLength =>
              /\ Len(reader.last) <= SixtyFourKiB
              /\ (reader.calls = 1 /\ Len(content) > SixtyFourKiB) => ~reader.eof

\* a file larger than 64 KiB has come back whole, with eof = true, from one
\* call without a length
C19_Witness ==
    /\ reader.active /\ reader.length = NoLength
    /\ Len(content) > SixtyFourKiB
    /\ reader.calls = 1
    /\ reader.last = content
    /\ reader.eof

\* C20: after a successful write_file the file is as long as the longer of
\* its old length and offset + len(data), holds data from offset on, keeps
\* every other byte it had, and the call acknowledged len(data) bytes; a call
\* whose offset + len(data) overflows fails and leaves the bytes as they were.
C20_WriteFileResult ==
    LET offset == lastWrite.offset
        data == lastWrite.data
        old == lastWrite.old
        end == offset + Len(data)
    IN  /\ lastWrite.result = "ok" =>
              /\ Len(content) = (IF Len(old) >= end THEN Len(old) ELSE end)
              /\ \A i \in 1..Len(data) : content[offset + i] = data[i]
              /\ \A i \in 1..Len(old) : (i <= offset \/ i > end) => content[i] = old[i]
              /\ lastWrite.bytes_written = Len(data)
        /\ (lastWrite.result # "none" /\ end > MaxU64) =>
              /\ lastWrite.result # "ok"
              /\ lastWrite.bytes_written = 0
              /\ content = old

\* a write has replaced the last byte of a file of three bytes and added one
C20_Witness ==
    /\ lastWrite.result = "ok"
    /\ Len(lastWrite.old) = MaxFileLen
    /\ lastWrite.offset = MaxFileLen - 1
    /\ Len(lastWrite.data) = MaxData
    /\ Len(content) = MaxFileLen + 1
    /\ lastWrite.bytes_written = MaxData

\* a write whose end lies past the largest u64 has failed
WriteOverflowed ==
    /\ lastWrite.result = "length overflow"
    /\ lastWrite.offset = MaxU64
    /\ lastWrite.data # <<>>

(***************************************************************************)
(* Specification SpecInbound: a node that serves inbound requests of every *)
(* kind while a remote scan and a remote update of its own are running.    *)
(***************************************************************************)

\* a directory, a file and a path that does not exist
InboundPaths == {<<"a">>, <<"a", "a">>, <<"c", "a">>}
UserNames == {"u"}
EventIds == {FirstScanId, FirstScanId + 1}

InboundRequests ==
    {PeerReq(k, 0, p, NoScanEvent) : k \in FsKinds, p \in InboundPaths}
    \cup {PeerReq(k, 0, NoPath, NoScanEvent) :
            k \in NotImplemented \cup {"ListCpus", "ListDisks", "ListInterfaces",
                                       "FileEntries", "ListPermissions"}}
    \cup {UserReq(k, u) : k \in {"Authenticate", "CreateUser", "CreateToken"},
                          u \in UserNames}
    \cup {PeerReq("StartScan", FirstScanId, p, NoScanEvent) : p \in ScanPaths}
    \cup {PeerReq("ScanEvent", id, NoPath, ev) :
            id \in EventIds, ev \in {Progress(1), Finished("Ok")}}
    \cup {PeerReq("UpdateSelf", FirstScanId, NoPath, NoScanEvent)}
    \cup {PeerReq("UpdateEvent", id, NoPath, UpdateEvent(t)) :
            id \in EventIds, t \in {"Downloading", "Completed"}}

\* what the peers send: one StartScan and one UpdateSelf per run, and a
\* bounded number of events
Sendable(req) ==
    /\ req.type = "StartScan" => workers["serve"] = "none"
    /\ req.type = "UpdateSelf" => workers["update"] = "none"
    /\ req.type = "ScanEvent" => Len(remoteRx) < MaxInboundEvents
    /\ req.type = "UpdateEvent" => Len(updateRx) < MaxInboundEvents

InitInbound ==
    /\ permissions = [p \in RemotePeers |->
                        IF p = Initiator THEN {Folder(<<"a">>, ReadWriteSearch)} ELSE {}]
    /\ shared_folders = {}
    /\ files = InitFiles
    /\ last = NoRequest
    /\ IdleLoop
    /\ node_id_known = TRUE
    /\ remote_scan_counter = FirstScanId + 1
    /\ remote_scans = {FirstScanId}
    /\ remoteRx = <<>>
    /\ localRx = <<>>
    /\ workers = [t \in Tasks |-> "none"]
    /\ emitted = [t \in {"local", "serve"} |-> 0]
    /\ progress_rx = <<>>
    /\ internal_rx = <<>>
    /\ forwarded = <<>>
    /\ users = {}
    /\ remote_updates = {FirstScanId}
    /\ updateRx = <<>>
    /\ remote_update_counter = FirstUpdateId + 1
    /\ updater = IdleUpdater
    /\ events = <<>>
    /\ selfRx = <<>>
    /\ app_dir = {}
    /\ bin_file = "old"
    /\ IdleIo
    /\ IdleExt

NextInbound ==
    \E peer \in RemotePeers, req \in InboundRequests :
        \E db_ok \in IF req.type = "FileEntries" THEN BOOLEAN ELSE {TRUE} :
            Sendable(req) /\ HandleRequest(peer, req, db_ok)

SpecInbound == InitInbound /\ [][NextInbound]_vars

\* C5: every inbound request the loop has received was answered with exactly
\* one response on its channel, and the node task is still there to serve
\* the next one.
C5_EveryRequestAnswered ==
    last.kind \in RequestKinds => (last.sent = 1 /\ loop = "running")

\* the parts of C5 that hold: every kind but Authenticate is answered exactly
\* once, and a handler error is answered with Error("Internal error")
C5_AnsweredUnlessAuthenticate ==
    (last.kind \in RequestKinds \ {"Authenticate"}) =>
        (last.sent = 1 /\ loop = "running" /\ last.res # HandlerErr)

\* a peer has sent Authenticate: nothing was sent back and the node task is
\* gone
C5_Witness ==
    last.kind = "Authenticate" /\ last.sent = 0 /\ loop = "panicked"

\* the last request was a StartScan of a path that exists and that the peer
\* has no read and search access to
StartScanDenied ==
    /\ last.kind = "StartScan"
    /\ canonicalize(files, last.path) # NoPath
    /\ ~can_access(permissions, shared_folders, last.peer, canonicalize(files, last.path),
                   ReadMask)

\* C27: a StartScan the peer is not authorised for is answered
\* Error("Access denied"), like every other authorisation failure, and no
\* scan worker is started for it.
C27_StartScanDeniedAsError ==
    StartScanDenied => (last.res = AccessDenied /\ workers["serve"] = "none")

\* the part of C27 that holds: no worker is started, and the peer is told
\* "Access denied", inside ScanStarted
C27_StartScanDeniedNoWorker ==
    StartScanDenied => (last.res = ScanStarted("Access denied") /\ workers["serve"] = "none")

\* a peer without access has asked for a scan and got ScanStarted(Err)
C27_Witness ==
    StartScanDenied /\ last.res = ScanStarted("Access denied") /\ last.sent = 1

(***************************************************************************)
(* Specification SpecNet: the node loop under network input: inbound       *)
(* requests of every kind, discovery and connection events, while callers  *)
(* of its own are parked on a remote peer.                                 *)
(***************************************************************************)

\* PeerReq::GrantAccess { username, permissions, merge }
GrantAccessReq(username, perms, merge) ==
    [type |-> "GrantAccess", id |-> 0, path |-> NoPath, event |-> NoScanEvent,
     username |-> username, version |-> NoVersion, permissions |-> perms, merge |-> merge]

\* what node A asks of this node: to read and search /b, replacing what it
\* was granted before
RequestedGrant == {Folder(<<"b">>, ReadSearch)}

\* one request of every kind
NetRequests ==
    {PeerReq(k, 0, <<"a", "a">>, NoScanEvent) : k \in FsKinds}
    \cup {PeerReq(k, 0, NoPath, NoScanEvent) :
            k \in (NotImplemented \ {"GrantAccess"}) \cup
                  {"ListCpus", "ListDisks", "ListInterfaces", "FileEntries",
                   "ListPermissions"}}
    \cup {GrantAccessReq("gui", RequestedGrant, FALSE)}
    \cup {UserReq(k, "u") : k \in {"Authenticate", "CreateUser", "CreateToken"}}
    \cup {PeerReq("StartScan", FirstScanId, <<"a">>, NoScanEvent)}
    \cup {PeerReq("ScanEvent", FirstScanId, NoPath, Finished("Ok"))}
    \cup {PeerReq("UpdateSelf", FirstScanId, NoPath, NoScanEvent)}
    \cup {PeerReq("UpdateEvent", FirstScanId, NoPath, UpdateEvent("Completed"))}

InitNet == InitInbound

NextNet ==
    \/ nsent = 0 /\ SendCommand("ListCpus", "p1")
    \/ HandleCmd
    \/ \E r \in outbound : DeliverResponse(r, Answer(r.req))
    \/ \E r \in outbound : DeliverFailure(r, "Timeout")
    \/ \E req \in NetRequests : Sendable(req) /\ HandleRequest(Initiator, req, TRUE)
    \/ \E dial \in DialResults : Discovered("p1", LocalAddr, dial)
    \/ Expired("p1", LocalAddr)
    \/ \E id \in ConnectionIds : ConnectionEstablished("p1", id)
    \/ \E id \in ConnectionIds : ConnectionClosed(id)
    \/ \E type \in IgnoredEvents : Ignored(type)

SpecNet == InitNet /\ [][NextNet]_vars

\* C21: no inbound request, discovery event or connection event, in any
\* order, ends the node loop with a panic.
C21_LoopNeverPanics == loop # "panicked"

\* no request was ever handled, a discovered address could not be dialled,
\* and the loop is gone with a caller's waiter
C21_Witness ==
    /\ loop = "panicked"
    /\ last = NoRequest
    /\ discovered_peers # <<>>
    /\ \E c \in Callers : reply[c].st = "closed"

\* C25: when node A has sent GrantAccess with merge = false, this node's
\* permissions for A are exactly the requested set and its reply is
\* AccessGranted.
C25_GrantReplacesPermissions ==
    last.kind = "GrantAccess" =>
        /\ permissions[last.peer] = RequestedGrant
        /\ last.res.type = "AccessGranted"
        /\ last.sent = 1

\* the request was answered with an error and A's permissions are what they
\* were
C25_Witness ==
    /\ last.kind = "GrantAccess"
    /\ last.peer = Initiator
    /\ last.res = Res("Error", "GrantAccess not implemented")
    /\ permissions[Initiator] = {Folder(<<"a">>, ReadWriteSearch)}

(***************************************************************************)
(* Specification SpecCatalog: a local scan runs while callers send         *)
(* commands for the local peer and for a remote peer.                      *)
(***************************************************************************)

InitCatalog == InitLoop

NextCatalog ==
    \/ ScanFolder(<<"a">>)
    \/ HandleScanCmd
    \/ LocalWorkerProgress
    \/ \E result \in ScanResults : LocalWorkerFinish(result)
    \/ \E kind \in CatalogKinds \cup {"ListDisks"} : SendCommand(kind, Me)
    \/ SendCommand("ListStorageFiles", "p1")
    \/ SendCommand("ListDir", "p1")
    \/ HandleCmdUnblocked
    \/ BlockOnCatalog
    \/ ResumeCmd
    \/ \E r \in outbound : DeliverResponse(r, Answer(r.req))
    \/ \E r \in outbound : DeliverFailure(r, "Timeout")

SpecCatalog == InitCatalog /\ [][NextCatalog]_vars

\* C22: while a scan worker is running the loop never waits for it: a
\* command that touches the catalog is handled without the scan finishing
\* first.
C22_ScanNeverStarvesLoop ==
    workers["local"] = "running" => loop # "waiting"

\* the worker is in the middle of its scan, the loop waits for the catalog
\* inside ListCpus, and a response for a parked caller is not being handled
C22_Witness ==
    /\ workers["local"] = "running"
    /\ emitted["local"] >= 1
    /\ loop = "waiting"
    /\ Head(cmdQueue).kind = "ListCpus"
    /\ outbound # {}
    /\ pending_requests # {}

(***************************************************************************)
(* Specification SpecShutdown: callers parked on a remote peer, responses  *)
(* that have arrived and wait in the swarm, and the shutdown signal.       *)
(***************************************************************************)

InitShutdown == InitLoop

NextShutdown ==
    \/ \E kind \in {"ListDir", "ListCpus"} : SendCommand(kind, "p1")
    \/ SendCommand("ListDisks", Me)
    \/ HandleCmd
    \/ \E r \in outbound : \E response \in ResponsesTo(r.req) : ResponseArrives(r, response)
    \/ \E r \in outbound : PollResponse(r)
    \/ \E r \in outbound : \E cause \in OutboundFailures : DeliverFailure(r, cause)
    \/ Shutdown

SpecShutdown == InitShutdown /\ [][NextShutdown]_vars

\* the step in which the node task leaves its loop
Exits == loop = "running" /\ loop' = "stopped"

\* C23: the loop exits only when the swarm events in flight have been
\* handled; once it has exited no waiter is parked and no caller waits, and
\* no command is handled any more.
C23_ShutdownDrainsThenExits ==
    /\ [][Exits => InFlightEvents = {}]_vars
    /\ [](loop = "stopped" =>
            /\ pending_requests = {}
            /\ \A c \in Callers : reply[c].st # "waiting")
    /\ [][loop = "stopped" => UNCHANGED <<loop, cmdQueue, reply, outbound>>]_vars

\* the parts of C23 that hold: the waiters are dropped, their callers see
\* the channel closed, and nothing is handled after the exit
C23_WaitersDroppedAtExit ==
    /\ [](loop = "stopped" =>
            /\ pending_requests = {}
            /\ \A c \in Callers : reply[c].st # "waiting")
    /\ [][loop = "stopped" => UNCHANGED <<loop, cmdQueue, reply, outbound>>]_vars

\* the loop has exited with the first request never resolved: its caller
\* has seen the channel close
C23_Witness ==
    /\ loop = "stopped"
    /\ nextId > 1
    /\ completed = {}
    /\ \E c \in Callers : reply[c].st = "closed"

InitHttp == InitLoop

NextHttp ==
    \/ \E username \in LoginNames, password \in LoginPasswords, set_cookie \in BOOLEAN :
          Login(username, password, set_cookie)
    \/ \E token \in PresentedTokens : ApiRequest(token)
    \/ \E token \in PresentedTokens : Logout(token)
    \/ ClockTick

SpecHttp == InitHttp /\ [][NextHttp]_vars

\* the login that handed out the token of the last request
IssuedFor(token) == {i \in http.issued : i.token = token}

\* the last request's token came from a login, was not logged out, and has
\* not expired at the time of the request
LiveToken ==
    \E i \in IssuedFor(http.token) :
        /\ http.token \notin http.revoked
        /\ http.at < i.expires_at
        /\ http.user = i.username

C26_Lookup ==
    http.op = "request" =>
        /\ (http.user # NoSessionUser) <=> LiveToken
        /\ (http.status = 401) <=> (http.user = NoSessionUser)

C26_BadLogin == (http'.op = "login" /\ http'.status = 401) => sessions' = sessions

\* C26: a token of a successful login authenticates requests before
\* expires_at and before logout; after logout, or with expires_at <= now, the
\* lookup finds no user and the request is unauthenticated; a login with
\* wrong credentials creates no session
C26_SessionLifecycle == []C26_Lookup /\ [][C26_BadLogin]_vars

\* a request with a token that was handed out and never logged out is turned
\* down because the token has expired
C26_Witness ==
    /\ http.op = "request"
    /\ http.status = 401
    /\ \E i \in IssuedFor(http.token) :
          http.token \notin http.revoked /\ i.expires_at <= http.at

InitDecode == InitLoop

NextDecode ==
    \/ \E T \in ResultTypes : Park(T)
    \/ \E response \in RemoteAnswers : CompleteWaiter(response)
    \/ \E error \in OutboundFailures : FailWaiter(error)
    \/ Receive

SpecDecode == InitDecode /\ [][NextDecode]_vars

\* the waiter has been completed with a response
WaiterCompleted == delivery.response # <<>>

\* C28: Error(msg) becomes Err(msg) for every command, the variant the
\* command expects becomes Ok(value), any other variant becomes an Err whose
\* text starts with "unexpected response", and Ok is delivered only for the
\* expected variant.
C28_ResponseTranslation ==
    WaiterCompleted =>
        LET T == delivery.T
            response == delivery.response
            result == delivery.result
        IN  /\ response.type = "Error" => result = ErrText(<<response.value>>)
            /\ response.type = Accepts(T) =>
                  /\ result.ok
                  /\ T # "UpdateResult" => result.value = response.value
                  /\ T = "UpdateResult" =>
                        (result.value.success <=> response.value = "Ok")
            /\ response.type \notin {"Error", Accepts(T)} =>
                  ~result.ok /\ result.text[1] = "unexpected response"
            /\ result.ok => response.type = Accepts(T)

\* a caller that waits for directory entries was answered with another
\* variant and has got the "unexpected response" error
C28_Witness ==
    /\ WaiterCompleted
    /\ delivery.T = "Vec<DirEntry>"
    /\ delivery.response.type = "Cpus"
    /\ ~delivery.result.ok
    /\ delivery.result.text[1] = "unexpected response"

InitScanCatalog == InitLoop

NextScanCatalog ==
    \/ \E path \in TreePaths, bytes \in Contents : WriteTreeFile(path, bytes)
    \/ \E path \in TreePaths : RemoveTreeFile(path)
    \/ ScanTree

SpecScanCatalog == InitScanCatalog /\ [][NextScanCatalog]_vars

\* C29: a scan of a tree that has not changed since the scan before it
\* reports inserted = 0, updated = 0 and removed = 0, and every hash of a
\* file_locations row of the node is in file_entries.
C29_ScanIdempotent ==
    catalog.rescan =>
        /\ catalog.stats = ScanStats(0, 0, 0)
        /\ \A l \in catalog.file_locations :
              l.node_id = Me => l.hash \in catalog.file_entries

\* a tree with a file in it was scanned twice in a row
C29_Witness ==
    /\ catalog.rescan
    /\ catalog.passes >= 2
    /\ catalog.file_locations # {}

(***************************************************************************)
(* Specification SpecGui: the GUI's messages while one peer is discovered  *)
(* at two addresses and connections come and go.                           *)
(***************************************************************************)
InitGui == InitLoop

NextGui ==
    \/ GuiTick
    \/ \E item \in {"Peers", "PeersGraph", "CreateUser"} : MenuSelected(item)
    \/ BackToPeers
    \/ \E peer_id \in RemotePeers \cup {Me} : PeerActionsRequested(peer_id)
    \/ \E multiaddr \in Addrs : Discovered(Initiator, multiaddr, "Ok")
    \/ \E multiaddr \in Addrs : Expired(Initiator, multiaddr)
    \/ \E peer_id \in RemotePeers, id \in ConnectionIds : ConnectionEstablished(peer_id, id)
    \/ \E id \in ConnectionIds : ConnectionClosed(id)

SpecGui == InitGui /\ [][NextGui]_vars

\* a sequence of ids holds every id of the set once
OnePerId(seq, ids) ==
    /\ {seq[i] : i \in 1..Len(seq)} = ids
    /\ Len(seq) = Cardinality(ids)

\* the view after the step is built from the node's state
Rebuilt(item) ==
    LET ids == StateIds(discovered_peers, connections, peers)
    IN  /\ gui'.mode = item
        /\ item = "Peers" => OnePerId([i \in 1..Len(gui'.peers) |-> gui'.peers[i].id], ids)
        /\ item = "PeersGraph" => OnePerId(gui'.nodes, ids)

\* C30: selecting Peers or Peers Graph rebuilds the view from the node's
\* state whatever it held before: the mode is the selected one, and the
\* rows (or graph nodes) hold one entry per distinct id among the discovered,
\* connected and known peers and the local peer.
C30_MenuRebuildsView ==
    [][\A item \in {"Peers", "PeersGraph"} : MenuSelected(item) => Rebuilt(item)]_vars

\* the graph is on display with the nodes of the state, for a peer that was
\* discovered at two addresses and is connected, while the rows were stale
\* before
C30_Witness ==
    /\ gui.menu = "PeersGraph" /\ gui.mode = "PeersGraph"
    /\ OnePerId(gui.nodes, StateIds(discovered_peers, connections, peers))
    /\ \E i, j \in 1..Len(discovered_peers) :
          i # j /\ discovered_peers[i].peer_id = discovered_peers[j].peer_id
    /\ connections # {}
    /\ Len(gui.nodes) = 2

(***************************************************************************)
(* Specification SpecReuse: callers address a remote peer while the        *)
(* transport may hand out the id of a request that is still parked.        *)
(***************************************************************************)
InitReuse == InitLoop

NextReuse ==
    \/ \E kind \in PeerAddressed : SendCommand(kind, "p1")
    \/ HandleCmd
    \/ \E request_id \in Ids(pending_requests) : HandleCmdReusing(request_id)
    \/ \E r \in outbound : DeliverResponse(r, Answer(r.req))
    \/ \E r \in outbound : DeliverFailure(r, "Timeout")

SpecReuse == InitReuse /\ [][NextReuse]_vars

\* the callers of the waiters parked under the id have got the "replaced"
\* error after the step
PreviousFailed(request_id) ==
    \A p \in pending_requests :
        p.id = request_id =>
            /\ reply'[p.caller].st = "value"
            /\ reply'[p.caller].val = Err("request was replaced")

\* C31: parking a waiter under an id that already has one fails the earlier
\* waiter with a "replaced" error, whatever the command: the earlier caller
\* gets an error value, never a closed channel.
C31_ReplacedWaiterIsFailed ==
    [][\A request_id \in Ids(pending_requests) :
          HandleCmdReusing(request_id) => PreviousFailed(request_id)]_vars

\* the part of C31 that holds: ListDir and ListPermissions fail the earlier
\* waiter
C31_ListDirReplacedIsFailed ==
    [][\A request_id \in Ids(pending_requests) :
          (HandleCmdReusing(request_id)
             /\ Head(cmdQueue).kind \in {"ListDir", "ListPermissions"})
          => PreviousFailed(request_id)]_vars

\* a caller's channel was closed while the loop runs and another caller's
\* waiter is parked
C31_Witness ==
    /\ loop = "running"
    /\ \E c \in Callers, w \in pending_requests :
          reply[c].st = "closed" /\ w.caller # c

(***************************************************************************)
(* Specification SpecStreamEnd: the events of a remote scan and a remote   *)
(* update arrive at the initiator, also after the terminal event and for   *)
(* ids that were never registered.                                         *)
(***************************************************************************)
StreamEvents ==
    {PeerReq("ScanEvent", id, NoPath, ev) :
        id \in EventIds, ev \in {Progress(1), Finished("Ok"), Finished("scan failed")}}
    \cup {PeerReq("UpdateEvent", id, NoPath, UpdateEvent(t)) :
            id \in EventIds, t \in {"Downloading"} \cup TerminalUpdateEvents}

IsTerminal(req) ==
    IF req.type = "ScanEvent" THEN req.event.type = "Finished"
    ELSE req.event.type \in TerminalUpdateEvents

\* the serving node sends a bounded number of events before the terminal one
SendableEvent(req) ==
    /\ (req.type = "ScanEvent" /\ ~IsTerminal(req)) => Len(remoteRx) < MaxProgress
    /\ (req.type = "UpdateEvent" /\ ~IsTerminal(req)) => Len(updateRx) < MaxProgress

InitStreamEnd == InitInbound

NextStreamEnd ==
    \E peer \in RemotePeers, req \in StreamEvents :
        SendableEvent(req) /\ HandleRequest(peer, req, TRUE)

SpecStreamEnd == InitStreamEnd /\ [][NextStreamEnd]_vars

Registered(req) ==
    IF req.type = "ScanEvent" THEN req.id \in remote_scans ELSE req.id \in remote_updates

\* what the step that handles the event does to the stream of its id
EventHandled(req) ==
    /\ last'.res = IF req.type = "ScanEvent" THEN ScanEventAck ELSE Res("UpdateEventAck", "")
    /\ last'.sent = 1
    /\ IsTerminal(req) =>
          (req.id \notin remote_scans' /\ req.type = "ScanEvent")
          \/ (req.id \notin remote_updates' /\ req.type = "UpdateEvent")
    /\ ~Registered(req) =>
          UNCHANGED <<remote_scans, remoteRx, remote_updates, updateRx>>
    /\ Registered(req) =>
          IF req.type = "ScanEvent" THEN remoteRx' = Append(remoteRx, req.event)
          ELSE updateRx' = Append(updateRx, req.event)

\* C32: the terminal event of a stream removes its id from remote_scans
\* (remote_updates); an event for an id that is not registered, because the
\* stream has ended or never existed, reaches no receiver and is answered
\* with the acknowledgement all the same.
C32_TerminalEventClosesStream ==
    [][\A peer \in RemotePeers, req \in StreamEvents :
          HandleRequest(peer, req, TRUE) => EventHandled(req)]_vars

\* the scan stream has ended with Finished, and a later event for its id
\* was acknowledged and reached nobody
C32_Witness ==
    /\ remote_scans = {}
    /\ Len(remoteRx) > 0 /\ remoteRx[Len(remoteRx)].type = "Finished"
    /\ last.kind = "ScanEvent" /\ last.res = ScanEventAck
    /\ remote_updates = {} /\ Len(updateRx) = 2

(***************************************************************************)
(* Specification SpecRead: read_file calls with every offset and length    *)
(* on files of up to MaxFileLen bytes, on a directory and on no file.      *)
(***************************************************************************)
InitRead == InitIo

NextRead ==
    \E kind \in PathKinds, offset \in Offsets, length \in Lengths, n \in 0..MaxFileLen :
        ReadFileAt(kind, offset, length, n)

SpecRead == InitRead /\ [][NextRead]_vars

\* the most bytes the call may return: min(length, file size - offset)
MostBytes ==
    LET remaining == Len(lastRead.file) - lastRead.offset
    IN  IF lastRead.length = NoLength THEN remaining ELSE min(lastRead.length, remaining)

\* C33: the chunk echoes the offset, holds at most min(length, size - offset)
\* bytes, which are the file's bytes from that offset, and has eof = true
\* exactly when offset + len(data) >= size; at or beyond the end it is empty
\* with eof = true; a directory fails with "path is a directory".
C33_ReadFileChunk ==
    /\ lastRead.kind = "file" =>
          LET chunk == lastRead.result.chunk
              size == Len(lastRead.file)
          IN  /\ lastRead.result.ok
              /\ chunk.offset = lastRead.offset
              /\ lastRead.offset < size =>
                    /\ Len(chunk.data) <= MostBytes
                    /\ chunk.data = SubSeq(lastRead.file, lastRead.offset + 1,
                                           lastRead.offset + Len(chunk.data))
              /\ chunk.eof <=> (lastRead.offset + Len(chunk.data) >= size)
              /\ lastRead.offset >= size => (chunk.data = <<>> /\ chunk.eof)
    /\ lastRead.kind = "dir" =>
          (~lastRead.result.ok /\ lastRead.result.error = "path is a directory")

\* a read in the middle of a file of three bytes got one byte of the two that
\* remain and no eof
C33_Witness ==
    /\ lastRead.kind = "file"
    /\ Len(lastRead.file) = 3 /\ lastRead.offset = 1 /\ lastRead.length = NoLength
    /\ Len(lastRead.result.chunk.data) = 1
    /\ ~lastRead.result.chunk.eof

\* a step that handles ConnectionEstablished or ConnectionClosed
ConnectionStep ==
    \/ \E peer_id \in RemotePeers, id \in ConnectionIds : ConnectionEstablished(peer_id, id)
    \/ \E id \in ConnectionIds : ConnectionClosed(id)

\* what a step does to the connections table
TableFollowsTransport ==
    /\ \A peer_id \in RemotePeers, id \in ConnectionIds :
          ConnectionEstablished(peer_id, id) =>
              connections' = connections \cup {Connection(peer_id, id)}
    /\ \A id \in ConnectionIds :
          ConnectionClosed(id) =>
              /\ \A c \in connections : c.connection_id # id => c \in connections'
              /\ \A c \in connections' : c \in connections /\ c.connection_id # id
    /\ ~ConnectionStep => connections' = connections

\* C34: the connections table holds exactly the (peer_id, connection_id)
\* pairs that were established and not closed: it starts empty, an
\* established connection adds its pair, a closed one removes the row with
\* its connection_id and no other, and nothing else changes the table.
C34_ConnectionsReflectTransport ==
    [][TableFollowsTransport]_vars

\* a peer had two connections, one was closed and the other is still in the
\* table
C34_Witness ==
    /\ event.type = "ConnectionClosed"
    /\ connections = {Connection("p1", 2)}

\* the peers with an entry in discovered_peers
DiscoveredIds == {discovered_peers[i].peer_id : i \in 1..Len(discovered_peers)}

\* C35: once ConnectionEstablished for a peer has been handled, the
\* connection is in the connections table and discovered_peers holds an
\* entry for that peer.
C35_EstablishedPeerIsRecorded ==
    event.type = "ConnectionEstablished" =>
        /\ \E c \in connections : c.peer_id = event.payload
        /\ event.payload \in DiscoveredIds

\* the part that holds: the connection of the peer is in the table
C35_EstablishedPeerIsConnected ==
    event.type = "ConnectionEstablished" =>
        \E c \in connections : c.peer_id = event.payload

\* a connection to a peer that discovery never reported was established,
\* and nothing was recorded in discovered_peers
C35_Witness ==
    /\ event.type = "ConnectionEstablished"
    /\ \E c \in connections : c.peer_id = event.payload
    /\ discovered_peers = <<>>

(***************************************************************************)
(* Specification SpecIndependent: peers send requests of every kind while  *)
(* callers of this node are parked on a remote peer, and responses and     *)
(* failures arrive for ids with and without a parked waiter. One inbound   *)
(* request is handled per run.                                             *)
(***************************************************************************)
InitIndependent == InitInbound

NextIndependent ==
    \/ \E kind \in {"ListCpus", "ListDisks"} : SendCommand(kind, "p1")
    \/ HandleCmd
    \/ \E request_id \in Ids(pending_requests) : HandleCmdReusing(request_id)
    \/ \E r \in outbound : DeliverResponse(r, Answer(r.req))
    \/ \E r \in outbound : DeliverFailure(r, "Timeout")
    \/ \E peer \in RemotePeers, req \in NetRequests :
          last = NoRequest /\ HandleRequest(peer, req, TRUE)

SpecIndependent == InitIndependent /\ [][NextIndependent]_vars

\* the waiter map and what the callers have received
WaiterState == <<pending_requests, reply, completed>>

\* handling an inbound request of one of the kinds leaves the waiters alone
InboundLeavesWaiters(kinds) ==
    \A peer \in RemotePeers, req \in NetRequests :
        (req.type \in kinds /\ HandleRequest(peer, req, TRUE)) =>
            UNCHANGED WaiterState

\* a response or failure whose id has no parked waiter changes nothing
UnmatchedChangesNothing ==
    \A r \in outbound :
        (/\ r.id \notin Ids(pending_requests)
         /\ \/ DeliverResponse(r, Answer(r.req))
            \/ DeliverFailure(r, "Timeout")) =>
            UNCHANGED <<WaiterState, loop, cmdQueue>>

\* C36: handling an inbound request of any variant while waiters are parked
\* adds, removes, completes and fails no waiter, and a response or failure
\* whose request id has no parked waiter changes nothing.
C36_InboundAndWaitersIndependent ==
    [][InboundLeavesWaiters(RequestKinds) /\ UnmatchedChangesNothing]_vars

\* the part that holds: every variant but Authenticate, and every unmatched
\* response or failure
C36_IndependentUnlessAuthenticate ==
    [][InboundLeavesWaiters(RequestKinds \ {"Authenticate"}) /\ UnmatchedChangesNothing]_vars

\* a peer has sent Authenticate while a caller was parked: the waiter is
\* gone and the caller's channel is closed
C36_Witness ==
    /\ last.kind = "Authenticate"
    /\ pending_requests = {}
    /\ \E c \in Callers : reply[c].st = "closed"

\* two requests went out under one id and both were answered: the second
\* response found no waiter
C36_UnmatchedWitness ==
    /\ event.type = "Response"
    /\ loop = "running"
    /\ outbound = {} /\ pending_requests = {}
    /\ nsent = 2 /\ cmdQueue = <<>>
    /\ Cardinality(completed) = 1

(***************************************************************************)
(* Specification SpecForeign: this node starts a remote scan and a remote  *)
(* update on the peer Server; ScanEvent and UpdateEvent requests then      *)
(* arrive from Server and from the other peer.                             *)
(***************************************************************************)
InitForeign == InitStart

\* the serving peer accepts the start request
Accepted(type) == IF type = "StartScan" THEN ScanStarted("Ok") ELSE UpdateStarted("Ok")

NextForeign ==
    \/ \E path \in {<<"a">>} : ScanRemotePeer(path)
    \/ HandleRemoteScanCmd
    \/ \E r \in outbound : DeliverScanStarted(r)
    \/ NoUpdateYet /\ \E version \in {NoVersion} : UpdateRemotePeer(version)
    \/ HandleRemoteUpdateCmd
    \/ \E r \in outbound : DeliverUpdateStarted(r)
    \/ \E r \in outbound : PeerAnswers(r, Accepted(r.req.type))
    \/ \E peer \in RemotePeers, req \in StreamEvents :
          SendableEvent(req) /\ HandleRequest(peer, req, TRUE)

SpecForeign == InitForeign /\ [][NextForeign]_vars

\* the streams of this node and what their receivers have got
StreamState == <<remote_scans, remoteRx, remote_updates, updateRx>>

\* C37: a ScanEvent or UpdateEvent is forwarded to the receiver registered
\* under its id only when it comes from the peer the StartScan / UpdateSelf
\* request was sent to; an event sent by any other peer reaches no receiver
\* and ends no stream.
C37_OnlyServingPeerFeedsStream ==
    [][\A peer \in RemotePeers \ {Server}, req \in StreamEvents :
          HandleRequest(peer, req, TRUE) => UNCHANGED StreamState]_vars

\* the part that holds: an event of the serving peer for a registered id
\* reaches the receiver of that id
C37_ServingPeerFeedsStream ==
    [][\A req \in StreamEvents :
          (Registered(req) /\ HandleRequest(Server, req, TRUE)) =>
              IF req.type = "ScanEvent" THEN remoteRx' = Append(remoteRx, req.event)
              ELSE updateRx' = Append(updateRx, req.event)]_vars

\* the scan was started on Server and no event of Server has arrived; a
\* Finished sent by the other peer has reached the receiver and ended the
\* stream
C37_Witness ==
    /\ last.peer # Server /\ last.kind = "ScanEvent"
    /\ remote_scan_counter = FirstScanId + 1
    /\ remote_scans = {}
    /\ remoteRx = <<Finished("Ok")>>

(***************************************************************************)
(* Specification SpecApiAuth: clients log in, time passes, and requests    *)
(* arrive for paths under /api and outside it, with and without a bearer   *)
(* token and a session cookie, good and bad. One session is created and    *)
(* one scan is started per run.                                            *)
(***************************************************************************)
HttpRequest(method, segments) == [method |-> method, segments |-> segments]

Requests ==
    {HttpRequest("POST", <<"api", "scans">>),
     HttpRequest("GET", <<"api", "scans", "1", "events">>),
     HttpRequest("POST", <<"api", "scans", "1", "cancel">>),
     HttpRequest("GET", <<"api", "peers", "p1", "dir">>),
     HttpRequest("GET", <<"api", "peers", "p1", "file">>),
     HttpRequest("PUT", <<"api", "peers", "p1", "permissions">>),
     HttpRequest("POST", <<"api", "updates", "p1">>),
     HttpRequest("GET", <<"api", "nope">>),
     HttpRequest("OPTIONS", <<"api", "scans">>),
     HttpRequest("GET", <<"health">>),
     HttpRequest("GET", <<"auth", "me">>)}

\* no token, a token of the server, one that expires early, one signed with
\* another key
Bearers ==
    {NoJwt, Jwt("alice", JwtSecret, MaxTime), Jwt("alice", JwtSecret, 1),
     Jwt("alice", "other", MaxTime)}

\* no cookie, the first token the server draws, a token it never draws
Cookies == {NoCookie, 1, MaxSessions + 1}

InitApiAuth == InitHttp

NextApiAuth ==
    \/ http.issued = {} /\ Login("alice", "secret", TRUE)
    \/ ClockTick
    \/ \E req \in Requests, bearer \in Bearers, cookie \in Cookies :
          /\ req.segments = <<"api", "scans">> => api.issued = <<>>
          /\ HandleHttp(req.method, req.segments, bearer, cookie, TRUE)

SpecApiAuth == InitApiAuth /\ [][NextApiAuth]_vars

\* the request answered in this step carried a token signed with the
\* server's secret and not expired, or a cookie whose hash is that of a
\* session that had not expired
Credentialed ==
    \/ /\ api'.last.bearer # NoJwt
       /\ api'.last.bearer.key = JwtSecret
       /\ api'.last.bearer.exp >= clock
    \/ \E s \in sessions :
          /\ s.token_hash = token_hash(api'.last.cookie)
          /\ s.expires_at > clock

\* the routes that start a scan or an update, read a file, list a directory
\* or change permissions
GuardedRoutes ==
    {"start_scan", "poll_scan", "cancel_scan", "start_update", "read_file", "list_dir",
     "set_permissions"}

\* how a step that answers a request under /api answers it
Gate ==
    (/\ UNCHANGED <<http, clock>>
     /\ api' # api \/ sessions' # sessions
     /\ api'.last.method # "OPTIONS" /\ api'.last.segments[1] = "api") =>
        IF Credentialed
        THEN api'.last.status # 401 /\ api'.last.user # NoSessionUser
        ELSE api'.last.status = 401 /\ api'.last.route = "none"

\* C38: a request under /api that is not OPTIONS and carries neither a
\* bearer JWT that verifies against the server's secret nor the cookie of a
\* live session is answered 401, runs no route handler and changes nothing
\* in ApiState; a request that carries one is not answered 401; and no
\* route that starts a scan or an update, reads a file, lists a directory or
\* changes permissions runs without an authenticated user.
C38_ApiRequiresCredentials ==
    [][/\ Gate
       /\ api'.last.route \in GuardedRoutes => api'.last.user # NoSessionUser
       /\ api'.last.route = "none" => api' = [api EXCEPT !.last = api'.last]]_vars

\* a session was created and has expired; a POST /api/scans with its cookie
\* was answered 401 and started nothing
C38_Witness ==
    /\ api.last.method = "POST" /\ api.last.segments = <<"api", "scans">>
    /\ api.last.cookie = 1 /\ api.last.bearer = NoJwt
    /\ api.last.status = 401
    /\ api.scans = {} /\ api.next_scan_id = 1
    /\ http.issued # {}
    /\ sessions = {}

(***************************************************************************)
(* Specification SpecApiScans: an authenticated client starts scans over   *)
(* the HTTP API, polls and cancels them, by ids that exist, that have      *)
(* ended and that never existed, while the scans' workers send events.     *)
(***************************************************************************)
ClientToken == Jwt("alice", JwtSecret, MaxTime)

\* the ids a client names: those handed out and one more
NamedIds == {IdText[i] : i \in 1..(MaxApiScans + 1)}

ScanRequests ==
    {HttpRequest("POST", <<"api", "scans">>)}
    \cup {HttpRequest("GET", <<"api", "scans", id, "events">>) : id \in NamedIds}
    \cup {HttpRequest("POST", <<"api", "scans", id, "cancel">>) : id \in NamedIds}

\* what the worker of scan id sends next
NextEvents(id) == {Progress(Len(api.sent[id]) + 1), Finished("Ok")}

InitApiScans == InitHttp

NextApiScans ==
    \/ \E req \in ScanRequests, accepted \in BOOLEAN :
          HandleHttp(req.method, req.segments, ClientToken, NoCookie, accepted)
    \/ \E id \in ApiScanIds : \E ev \in NextEvents(id) : ScanWorkerSends(id, ev)

SpecApiScans == InitApiScans /\ [][NextApiScans]_vars

FinishedIn(stream) == {i \in 1..Len(stream) : stream[i].type = "Finished"}

\* the ids handed out differ from one another
DistinctIds ==
    \A i, j \in 1..Len(api.issued) : i # j => api.issued[i] # api.issued[j]

\* what the polls of a scan have returned, one after another, is the start
\* of what its worker has sent; Finished comes at most once, last, and the
\* scan is then gone
PolledInOrder(id) ==
    /\ Len(api.polled[id]) <= Len(api.sent[id])
    /\ api.polled[id] = SubSeq(api.sent[id], 1, Len(api.polled[id]))
    /\ Cardinality(FinishedIn(api.polled[id])) <= 1
    /\ FinishedIn(api.polled[id]) \subseteq {Len(api.polled[id])}
    /\ FinishedIn(api.polled[id]) # {} => id \notin api.scans

\* a cancelled scan is gone and its terminal event was never returned
CancelledIsSilent(id) ==
    id \in api.cancelled => (id \notin api.scans /\ FinishedIn(api.polled[id]) = {})

\* a poll or cancel of a scan that had ended reports not found
GoneIsNotFound ==
    (api.last.route \in {"poll_scan", "cancel_scan"} /\ api.last.gone) =>
        api.last.status = 404

ScanSessions ==
    /\ DistinctIds
    /\ \A id \in ApiScanIds : PolledInOrder(id) /\ CancelledIsSilent(id)
    /\ GoneIsNotFound

\* a successful poll returns every event the worker has sent and that no
\* poll has returned before
PollReturnsAll ==
    (/\ api'.last.route = "poll_scan" /\ api'.last.status = 200
     /\ api' # api /\ api'.sent = api.sent /\ api'.tx = api.tx) =>
        /\ api'.polled[api'.last.scan_id] = api.sent[api'.last.scan_id]
        /\ api'.polled[api'.last.scan_id] = api.polled[api'.last.scan_id] \o api'.last.events

\* C39: the scan ids handed out are pairwise distinct; poll_scan returns the
\* events received so far in order, stops at Finished and removes the scan
\* in the same call, so Finished is returned at most once and a later poll
\* reports not found; once cancel_scan has returned true the id is gone,
\* every later poll or cancel reports not found, and the terminal event of
\* the cancelled scan is never returned.
C39_ScanSessions ==
    [][ScanSessions' /\ PollReturnsAll]_vars

\* scan 1 was polled to its Finished; scan 2 was cancelled, its worker has
\* finished since, and a poll of it was answered not found
C39_Witness ==
    /\ Len(api.polled[1]) >= 2 /\ FinishedIn(api.polled[1]) # {}
    /\ api.cancelled = {2} /\ api.tx[2] = "done"
    /\ api.last.route = "poll_scan" /\ api.last.scan_id = 2
    /\ api.last.status = 404 /\ api.last.gone

(***************************************************************************)
(* Specification SpecWorkers: a local scan and a scan served to a peer     *)
(* are started while a caller asks for the local CPUs; the two workers     *)
(* take the catalog mutex in turn and the loop waits for it. Every thread  *)
(* and task that can run does run: the workers, the forwarder, the loop.   *)
(***************************************************************************)
InitWorkers == InitStart

\* the worker is inside scan_with_progress, between its first event and the
\* return
Scanning(t) == workers[t] = "running" /\ emitted[t] >= 1

ServedScan == PeerReq("StartScan", FirstScanId, <<"a">>, NoScanEvent)

LoopStep ==
    \/ HandleScanCmd
    \/ HandleCmdUnblocked
    \/ BlockOnCatalog
    \/ ResumeCmd
    \/ HandleInternalCmd

LocalWorkerStep ==
    /\ ~Scanning("serve")
    /\ \/ LocalWorkerProgress
       \/ \E result \in ScanResults : LocalWorkerFinish(result)

ServeWorkerStep ==
    /\ ~Scanning("local")
    /\ \/ ServeWorkerProgress
       \/ \E result \in ScanResults : ServeWorkerFinish(result)

NextWorkers ==
    \/ ScanFolder(<<"a">>)
    \/ nsent = 0 /\ SendCommand("ListCpus", Me)
    \/ Sendable(ServedScan) /\ HandleRequest(Initiator, ServedScan, TRUE)
    \/ HandleScanCmd
    \/ HandleCmdUnblocked
    \/ BlockOnCatalog
    \/ ResumeCmd
    \/ HandleInternalCmd
    \/ ~Scanning("serve") /\ LocalWorkerProgress
    \/ ~Scanning("serve") /\ \E result \in ScanResults : LocalWorkerFinish(result)
    \/ ~Scanning("local") /\ ServeWorkerProgress
    \/ ~Scanning("local") /\ \E result \in ScanResults : ServeWorkerFinish(result)
    \/ Forward

SpecWorkers ==
    /\ InitWorkers /\ [][NextWorkers]_vars
    /\ WF_vars(LoopStep)
    /\ WF_vars(LocalWorkerStep)
    /\ WF_vars(ServeWorkerStep)
    /\ WF_vars(Forward)

BothStarted == workers["local"] = "running" /\ workers["serve"] = "running"

\* the local scan's receiver has its Finished, and the served scan's
\* Finished has gone out to the peer as a ScanEvent request
BothDelivered ==
    /\ FinishedCount(localRx) = 1
    /\ FinishedCount(forwarded) = 1

\* C40: the node loop and the scan workers do not deadlock: a loop that
\* waits for the catalog mutex gets it, and two scans that run at the same
\* time both deliver their Finished event.
C40_NoDeadlock ==
    /\ (loop = "waiting") ~> (loop = "running")
    /\ BothStarted ~> BothDelivered

\* the served scan's worker is inside its scan, the local scan's worker
\* waits for the mutex, and so does the loop inside ListCpus
C40_Witness ==
    /\ loop = "waiting"
    /\ Scanning("serve")
    /\ workers["local"] = "running" /\ emitted["local"] = 0

=============================================================================
